---- MODULE Spec2Model ----
(***************************************************************************)
(* Model of the in-memory HTTP handlers of the social-network demo API:    *)
(* FollowsHandler and FeedsHandler (apis/feed.go), PostsHandler (posts,     *)
(* second variant), ProfileHandler (profile, second variant),              *)
(* NotificationHandler and AuthHandler (apis/auth.go), ReactionsHandler    *)
(* and CommentsHandler.  A handler that holds its mutex, or that does not  *)
(* wait between its read and its write, is one action: it reads its        *)
(* inputs, reads/mutates its own store and leaves its answer in resp.      *)
(* UpdatePost and ChangePassword read their store, wait for the request    *)
(* body with no lock held, and then write: they are two actions each.      *)
(* The statement-level interleavings of the other handlers are the         *)
(* specifications SpecFollowsConcurrent, SpecCommentsConcurrent and        *)
(* SpecUnlocked.                                                           *)
(***************************************************************************)
EXTENDS Integers, Sequences, FiniteSets, TLC

VARIABLES
    following,      \* FollowsHandler.following : map[int][]Follow
    followers,      \* FollowsHandler.followers : map[int][]Follow
    Posts,          \* PostsHandler.Posts : map[int]Post
    PostsIsNil,     \* TRUE while PostsHandler.Posts is the nil map
    Users,          \* ProfileHandler.Users : map[int]UserProfile
    notifications,  \* NotificationHandler.notifications : []Notification
    feeds,          \* FeedsHandler.feeds : []FeedItem
    reactions,      \* ReactionsHandler.reactions : map[string]map[string]string
    ReactionsIsNil, \* TRUE while ReactionsHandler.reactions is the nil map
    comments,       \* CommentsHandler.comments : map[int][]Comment
    nextID,         \* CommentsHandler.nextID
    AuthUsers,      \* AuthHandler.Users : map[string]User
    medias,         \* MediaHandler.medias : []Media
    mediaNextID,    \* MediaHandler.nextID
    inflight,       \* the requests being served concurrently, each at its step
    resp            \* the answer of the last request served

vars == <<following, followers, Posts, PostsIsNil, Users, notifications,
          feeds, reactions, ReactionsIsNil, comments, nextID, AuthUsers,
          medias, mediaNextID, inflight, resp>>

followsVars == <<following, followers>>
postsVars == <<Posts, PostsIsNil>>
profileVars == <<Users>>
notificationVars == <<notifications>>
feedsVars == <<feeds>>
reactionsVars == <<reactions, ReactionsIsNil>>
commentsVars == <<comments, nextID>>
authVars == <<AuthUsers>>
mediaVars == <<medias, mediaNextID>>
flightVars == <<inflight>>

\* what the requests of one handler leave alone: the stores of the others
notFollows == <<postsVars, profileVars, notificationVars,
                feedsVars, reactionsVars, commentsVars, authVars,
    mediaVars, flightVars>>
notPosts == <<followsVars, profileVars, notificationVars,
              feedsVars, reactionsVars, commentsVars, authVars,
    mediaVars, flightVars>>
notProfile == <<followsVars, postsVars, notificationVars,
                feedsVars, reactionsVars, commentsVars, authVars,
    mediaVars, flightVars>>
notNotifications == <<followsVars, postsVars, profileVars,
                      feedsVars, reactionsVars, commentsVars, authVars,
    mediaVars, flightVars>>
notFeeds == <<followsVars, postsVars, profileVars, notificationVars,
              reactionsVars, commentsVars, authVars,
    mediaVars, flightVars>>
notReactions == <<followsVars, postsVars, profileVars, notificationVars,
                  feedsVars, commentsVars, authVars,
    mediaVars, flightVars>>
notComments == <<followsVars, postsVars, profileVars, notificationVars,
                 feedsVars, reactionsVars, authVars,
    mediaVars, flightVars>>
notAuth == <<followsVars, postsVars, profileVars, notificationVars,
             feedsVars, reactionsVars, commentsVars,
    mediaVars, flightVars>>
notMedia == <<followsVars, postsVars, profileVars, notificationVars,
              feedsVars, reactionsVars, commentsVars, authVars, flightVars>>

(***************************************************************************)
(* Bounds of the model.                                                    *)
(***************************************************************************)
MaxUser == 3
MaxPosts == 2
MaxSeedPosts == 1
MaxTime == 1
MaxProfiles == 2
MaxNotifications == 2
MaxQuery == 2
MaxFeeds == 3
MaxReactionPosts == 2
MaxComments == 2
MaxMedia == 2

(***************************************************************************)
(* HTTP status codes written by the handlers.  A handler that panics       *)
(* (net/http recovers and drops the connection) answers with Aborted.      *)
(***************************************************************************)
StatusOK == 200
StatusCreated == 201
StatusBadRequest == 400
StatusUnauthorized == 401
StatusForbidden == 403
StatusNotFound == 404
StatusMethodNotAllowed == 405
StatusInternalServerError == 500
Aborted == 0

(***************************************************************************)
(* Go maps and slices.                                                     *)
(***************************************************************************)
EmptyMap == [k \in {} |-> 0]

MapPut(m, k, v) == [x \in (DOMAIN m) \cup {k} |-> IF x = k THEN v ELSE m[x]]

\* m[k] on a map of slices: the nil (empty) slice when the key is missing
MapGetSlice(m, k) == IF k \in DOMAIN m THEN m[k] ELSE <<>>

\* a removal that fills the hole with the last element
RemoveAt_SwapLast(s, i) == [j \in 1..(Len(s) - 1) |-> IF j = i THEN s[Len(s)] ELSE s[j]]

\* append(s[:i], s[i+1:]...) with i counted from 1
RemoveAt(s, i) == [j \in 1..(Len(s) - 1) |-> IF j < i THEN s[j] ELSE s[j + 1]]

\* index of the first element of a slice of Follow with the given UserID, 0 if none
RECURSIVE IndexOfUserFrom(_, _, _)
IndexOfUserFrom(s, id, i) ==
    IF i > Len(s) THEN 0
    ELSE IF s[i].UserID = id THEN i
    ELSE IndexOfUserFrom(s, id, i + 1)

IndexOfUser(s, id) == IndexOfUserFrom(s, id, 1)

(***************************************************************************)
(* Requests served concurrently.  net/http runs every request in a         *)
(* goroutine of its own; a goroutine is a record in inflight: the handler  *)
(* it runs, its request, the statement it has reached (pc), whether it     *)
(* holds the handler's mutex, and its local variable.  A goroutine ends     *)
(* when its handler has written the response.                              *)
(***************************************************************************)
MaxInFlight == 2

stores == <<followsVars, postsVars, profileVars, notificationVars, feedsVars,
            reactionsVars, commentsVars, authVars, mediaVars>>
besidesFollows == <<postsVars, profileVars, notificationVars, feedsVars,
                    reactionsVars, commentsVars, authVars, mediaVars>>
besidesComments == <<followsVars, postsVars, profileVars, notificationVars,
                     feedsVars, reactionsVars, authVars, mediaVars>>
besidesPosts == <<followsVars, profileVars, notificationVars, feedsVars,
                  reactionsVars, commentsVars, authVars, mediaVars>>
besidesAuth == <<followsVars, postsVars, profileVars, notificationVars,
                 feedsVars, reactionsVars, commentsVars, mediaVars>>

Goroutine(h, op, req) ==
    [h |-> h, op |-> op, req |-> req, pc |-> "start", held |-> FALSE, local |-> 0]

\* the process has ended with a fatal error
Killed == \E j \in DOMAIN inflight : inflight[j].pc = "killed"

\* the server accepts a request and starts the handler in a new goroutine
Serve(h, op, req) ==
    /\ Len(inflight) < MaxInFlight
    /\ ~Killed
    /\ inflight' = Append(inflight, Goroutine(h, op, req))
    /\ UNCHANGED <<stores, resp>>

At(i, op, pc) == inflight[i].op = op /\ inflight[i].pc = pc

\* goroutine i moves on to the statement pc
Goto(i, pc, local) ==
    inflight' = [inflight EXCEPT ![i].pc = pc, ![i].local = local]

\* goroutine i writes its response and returns; the deferred Unlock runs
Answer(i, status, body) ==
    /\ inflight' = RemoveAt(inflight, i)
    /\ resp' = [op |-> inflight[i].op, arg |-> inflight[i].req,
                status |-> status, body |-> body]

\* a mutex that excludes nobody
MutexFree_NoExclusion(h) == TRUE

\* sync.Mutex: no goroutine is between h.mu.Lock() and the deferred Unlock
MutexFree(h) ==
    \A j \in DOMAIN inflight : ~(inflight[j].h = h /\ inflight[j].held)

\* h.mu.Lock(); defer h.mu.Unlock()
Lock(i) ==
    /\ inflight[i].pc = "lock"
    /\ MutexFree(inflight[i].h)
    /\ inflight' = [inflight EXCEPT ![i].pc = "locked", ![i].held = TRUE]
    /\ UNCHANGED <<stores, resp>>

(***************************************************************************)
(* FollowsHandler                                                          *)
(***************************************************************************)
currentID == 1

\* path variable after strconv.Atoi with the error dropped: 0 for a non-number
TargetIds == 0..MaxUser

\* Follow{UserID: id, Username: "user" + strconv.Itoa(id)}
Follow(id) == [UserID |-> id, Username |-> <<"user", id>>]

InitFollows ==
    /\ following = EmptyMap
    /\ followers = EmptyMap

\* FollowUser that records the edge in the following map only
FollowUser_OneSided(targetID) ==
    IF IndexOfUser(MapGetSlice(following, currentID), targetID) # 0
    THEN /\ resp' = [op |-> "FollowUser", arg |-> targetID,
                     status |-> StatusBadRequest, body |-> "Already following"]
         /\ UNCHANGED <<followsVars, notFollows>>
    ELSE /\ following' = MapPut(following, currentID,
                Append(MapGetSlice(following, currentID), Follow(targetID)))
         /\ resp' = [op |-> "FollowUser", arg |-> targetID,
                     status |-> StatusCreated, body |-> "Followed"]
         /\ UNCHANGED <<followers, notFollows>>

\* FollowUser without the "already following" loop
FollowUser_NoCheck(targetID) ==
    /\ following' = MapPut(following, currentID,
           Append(MapGetSlice(following, currentID), Follow(targetID)))
    /\ followers' = MapPut(followers, targetID,
           Append(MapGetSlice(followers, targetID), Follow(currentID)))
    /\ resp' = [op |-> "FollowUser", arg |-> targetID,
                status |-> StatusCreated, body |-> "Followed"]
    /\ UNCHANGED notFollows

FollowUser(targetID) ==
    IF IndexOfUser(MapGetSlice(following, currentID), targetID) # 0
    THEN /\ resp' = [op |-> "FollowUser", arg |-> targetID,
                     status |-> StatusBadRequest, body |-> "Already following"]
         /\ UNCHANGED <<followsVars, notFollows>>
    ELSE /\ following' = MapPut(following, currentID,
                Append(MapGetSlice(following, currentID), Follow(targetID)))
         /\ followers' = MapPut(followers, targetID,
                Append(MapGetSlice(followers, targetID), Follow(currentID)))
         /\ resp' = [op |-> "FollowUser", arg |-> targetID,
                     status |-> StatusCreated, body |-> "Followed"]
         /\ UNCHANGED notFollows

\* UnfollowUser that answers 200 when there is nothing to remove
UnfollowUser_Lenient(targetID) ==
    LET followingList == MapGetSlice(following, currentID)
        i == IndexOfUser(followingList, targetID)
        followerList == MapGetSlice(followers, targetID)
        j == IndexOfUser(followerList, currentID)
    IN  /\ following' = IF i = 0 THEN following
                        ELSE MapPut(following, currentID, RemoveAt(followingList, i))
        /\ followers' = IF j = 0 THEN followers
                        ELSE MapPut(followers, targetID, RemoveAt(followerList, j))
        /\ resp' = [op |-> "UnfollowUser", arg |-> targetID,
                    status |-> StatusOK, body |-> "Unfollowed"]
        /\ UNCHANGED notFollows

UnfollowUser(targetID) ==
    LET followingList == MapGetSlice(following, currentID)
        i == IndexOfUser(followingList, targetID)
        followerList == MapGetSlice(followers, targetID)
        j == IndexOfUser(followerList, currentID)
    IN  IF i = 0
        THEN /\ resp' = [op |-> "UnfollowUser", arg |-> targetID,
                         status |-> StatusForbidden, body |-> "Unauthorized"]
             /\ UNCHANGED <<followsVars, notFollows>>
        ELSE /\ following' = MapPut(following, currentID, RemoveAt(followingList, i))
             /\ followers' = IF j = 0 THEN followers
                             ELSE MapPut(followers, targetID, RemoveAt(followerList, j))
             /\ resp' = [op |-> "UnfollowUser", arg |-> targetID,
                         status |-> StatusOK, body |-> "Unfollowed"]
             /\ UNCHANGED notFollows

GetFollowersByUserID(userID) ==
    /\ resp' = IF userID \notin DOMAIN followers
               THEN [op |-> "GetFollowers", arg |-> userID,
                     status |-> StatusNotFound, body |-> <<>>]
               ELSE [op |-> "GetFollowers", arg |-> userID,
                     status |-> StatusOK, body |-> followers[userID]]
    /\ UNCHANGED <<followsVars, notFollows>>

GetFollowingByUserID(userID) ==
    /\ resp' = IF userID \notin DOMAIN following
               THEN [op |-> "GetFollowing", arg |-> userID,
                     status |-> StatusNotFound, body |-> <<>>]
               ELSE [op |-> "GetFollowing", arg |-> userID,
                     status |-> StatusOK, body |-> following[userID]]
    /\ UNCHANGED <<followsVars, notFollows>>

GetMyFollowers == GetFollowersByUserID(1)

GetMyFollowing == GetFollowingByUserID(1)

GetFollowers(userID) == GetFollowersByUserID(userID)

GetFollowing(userID) == GetFollowingByUserID(userID)


NextFollows ==
    \/ \E t \in TargetIds : FollowUser(t)
    \/ \E t \in TargetIds : UnfollowUser(t)
    \/ GetMyFollowers
    \/ GetMyFollowing
    \/ \E u \in TargetIds : GetFollowers(u)
    \/ \E u \in TargetIds : GetFollowing(u)

(***************************************************************************)
(* Go's int on a 64-bit build.  A value is written relative to 0, to the   *)
(* largest int or to the smallest int:                                     *)
(*   [b |-> "z",  d |-> n]   is n                                          *)
(*   [b |-> "hi", d |-> n]   is MaxInt64 - n   (n >= 0)                    *)
(*   [b |-> "lo", d |-> n]   is MinInt64 + n   (n >= 0)                    *)
(* with every d far smaller than 2^62, so the three ranges never meet.     *)
(***************************************************************************)
Z(n) == [b |-> "z", d |-> n]
Hi(n) == [b |-> "hi", d |-> n]
Lo(n) == [b |-> "lo", d |-> n]

\* x + y with two's complement wrap-around (MaxInt64 + 1 = MinInt64)
Add64(x, y) ==
    CASE x.b = "z"  /\ y.b = "z"  -> Z(x.d + y.d)
      [] x.b = "hi" /\ y.b = "z"  -> IF y.d <= x.d THEN Hi(x.d - y.d) ELSE Lo(y.d - x.d - 1)
      [] x.b = "z"  /\ y.b = "hi" -> IF x.d <= y.d THEN Hi(y.d - x.d) ELSE Lo(x.d - y.d - 1)
      [] x.b = "lo" /\ y.b = "z"  -> IF x.d + y.d >= 0 THEN Lo(x.d + y.d) ELSE Hi(0 - (x.d + y.d) - 1)
      [] x.b = "z"  /\ y.b = "lo" -> IF x.d + y.d >= 0 THEN Lo(x.d + y.d) ELSE Hi(0 - (x.d + y.d) - 1)
      [] x.b = "hi" /\ y.b = "hi" -> Z(0 - 2 - x.d - y.d)
      [] x.b = "lo" /\ y.b = "lo" -> Z(x.d + y.d)
      [] x.b = "hi" /\ y.b = "lo" -> Z(y.d - x.d - 1)
      [] x.b = "lo" /\ y.b = "hi" -> Z(x.d - y.d - 1)

\* x < y
Lt64(x, y) ==
    LET rank(v) == CASE v.b = "lo" -> 0 [] v.b = "z" -> 1 [] v.b = "hi" -> 2
    IN  \/ rank(x) < rank(y)
        \/ /\ x.b = y.b
           /\ IF x.b = "hi" THEN x.d > y.d ELSE x.d < y.d

Le64(x, y) == x = y \/ Lt64(x, y)

\* s[lo:hi] of a slice whose capacity is not below hi whenever hi <= len(s):
\* the bounds check of the runtime, then the elements lo .. hi-1
SliceExpr(s, lo, hi) ==
    IF Le64(Z(0), lo) /\ Le64(lo, hi) /\ Le64(hi, Z(Len(s)))
    THEN [panic |-> FALSE, val |-> SubSeq(s, lo.d + 1, hi.d)]
    ELSE [panic |-> TRUE, val |-> <<>>]

(***************************************************************************)
(* A query parameter as it reaches the handler, and strconv.Atoi of it.    *)
(*   absent : the parameter is missing (Get returns "")                    *)
(*   text   : not a number                                                 *)
(*   num    : the decimal form of the int v                                *)
(*   range  : decimal digits of a number above MaxInt64                    *)
(***************************************************************************)
QAbsent == [kind |-> "absent", v |-> Z(0)]
QText == [kind |-> "text", v |-> Z(0)]
QNum(x) == [kind |-> "num", v |-> x]
QRange == [kind |-> "range", v |-> Z(0)]

Atoi(q) ==
    CASE q.kind = "num"    -> [val |-> q.v, err |-> FALSE]
      [] q.kind = "range"  -> [val |-> Hi(0), err |-> TRUE]
      [] OTHER             -> [val |-> Z(0), err |-> TRUE]

\* the clamping of offset/end shared by GetUserPosts, GetOwnPosts, SearchUsers
ClampedPage(list, offsetQ, limitQ) ==
    LET offset == Atoi(offsetQ).val
        limit == Atoi(limitQ).val
        n == Z(Len(list))
        end0 == Add64(offset, limit)
        end == IF Lt64(n, end0) THEN n ELSE end0
        off == IF Lt64(n, offset) THEN n ELSE offset
    IN  SliceExpr(list, off, end)

\* every order in which ranging over a map may visit the keys in S
Orders(S) ==
    {f \in [1..Cardinality(S) -> S] : \A i, j \in DOMAIN f : i # j => f[i] # f[j]}

(***************************************************************************)
(* PostsHandler (the variant that keeps a store)                           *)
(***************************************************************************)
\* a []int field: the nil slice, or a slice with the given elements
NilSlice == [isNil |-> TRUE, elems |-> <<>>]
SliceOf(e) == [isNil |-> FALSE, elems |-> e]

Post(id, user, content, created, media, deleted) ==
    [PostID |-> id, UserID |-> user, Content |-> content,
     CreatedAt |-> created, MediaIDs |-> media, IsDeleted |-> deleted]

\* json.NewEncoder(w).Encode(post): IsDeleted is `json:"-"`, and media_ids is
\* omitted for a nil or empty slice
PostJSON(p) ==
    [post_id |-> p.PostID, user_id |-> p.UserID, content |-> p.Content,
     createdAt |-> p.CreatedAt, media_ids |-> p.MediaIDs.elems]

\* the path variable {post_id} / {user_id} after strconv.Atoi, error dropped
PostIds == 0..(MaxPosts + 1)
UserIds == 0..2

\* time.Now(), in seconds
Times == 1..MaxTime

\* a request body after json.Decode into a Post: ok is FALSE when Decode fails
BadBody == [ok |-> FALSE, PostID |-> 0, UserID |-> 0, Content |-> "", MediaIDs |-> NilSlice]
ReqContents == {"", "a"}
ReqMedia == {NilSlice, SliceOf(<<7>>)}
\* a body for CreatePost may also name a post_id and a user_id of its own
CreateBodies ==
    {BadBody} \cup
    [ok : {TRUE}, PostID : {0}, UserID : {0}, Content : ReqContents, MediaIDs : ReqMedia] \cup
    [ok : {TRUE}, PostID : {1}, UserID : {2}, Content : ReqContents, MediaIDs : ReqMedia]
UpdateBodies ==
    {BadBody} \cup
    [ok : {TRUE}, PostID : {0}, UserID : {0}, Content : ReqContents, MediaIDs : ReqMedia]

\* a store as it may exist when the handler starts serving: keys 1..n, each
\* record under its own id, written by user 1 or by another user
SeedPost(id, user, deleted) == Post(id, user, "s", 0, NilSlice, deleted)
SeedPostStores(max) ==
    UNION {{[i \in 1..n |-> SeedPost(i, u[i], d[i])] :
                u \in [1..n -> {1, 2}], d \in [1..n -> BOOLEAN]} : n \in 0..max}

InitPosts ==
    \/ /\ PostsIsNil = TRUE           \* &apis.PostsHandler{} of main
       /\ Posts = EmptyMap
    \/ /\ PostsIsNil = FALSE
       /\ Posts \in SeedPostStores(MaxSeedPosts)

\* the answer of GetPost for a store
GetPostResp(store, postID) ==
    IF postID \notin DOMAIN store \/ store[postID].IsDeleted
    THEN [op |-> "GetPost", arg |-> postID, status |-> StatusNotFound,
          body |-> "Post not found"]
    ELSE [op |-> "GetPost", arg |-> postID, status |-> StatusOK,
          body |-> PostJSON(store[postID])]

GetPost(postID) ==
    /\ resp' = GetPostResp(Posts, postID)
    /\ UNCHANGED <<postsVars, notPosts>>

\* the keys of the posts the loop of GetUserPosts / GetOwnPosts keeps
UserPostKeys(store, userID) ==
    {k \in DOMAIN store : store[k].UserID = userID /\ ~store[k].IsDeleted}

ListResp(opName, userID, offsetQ, limitQ, status, page, total) ==
    [op |-> opName, arg |-> userID, offset |-> offsetQ, limit |-> limitQ,
     status |-> status, body |-> [page |-> page, total |-> total]]

GetUserPosts(userID, offsetQ, limitQ) ==
    /\ \E order \in Orders(UserPostKeys(Posts, userID)) :
         LET userPosts == [i \in DOMAIN order |-> Posts[order[i]]]
             page == ClampedPage(userPosts, offsetQ, limitQ)
         IN  resp' =
               IF Len(userPosts) = 0
               THEN ListResp("GetUserPosts", userID, offsetQ, limitQ, StatusNotFound, <<>>, 0)
               ELSE IF page.panic
               THEN ListResp("GetUserPosts", userID, offsetQ, limitQ, Aborted, <<>>, 0)
               ELSE ListResp("GetUserPosts", userID, offsetQ, limitQ, StatusOK,
                             [i \in DOMAIN page.val |-> PostJSON(page.val[i])],
                             Len(userPosts))
    /\ UNCHANGED <<postsVars, notPosts>>

GetOwnPosts(offsetQ, limitQ) ==
    /\ \E order \in Orders(UserPostKeys(Posts, 1)) :
         LET userPosts == [i \in DOMAIN order |-> Posts[order[i]]]
             page == ClampedPage(userPosts, offsetQ, limitQ)
         IN  resp' =
               IF page.panic
               THEN ListResp("GetOwnPosts", 1, offsetQ, limitQ, Aborted, <<>>, 0)
               ELSE ListResp("GetOwnPosts", 1, offsetQ, limitQ, StatusOK,
                             [i \in DOMAIN page.val |-> PostJSON(page.val[i])],
                             Len(userPosts))
    /\ UNCHANGED <<postsVars, notPosts>>

\* newID := len(h.Posts) + 1
NewPostID(store) == Cardinality(DOMAIN store) + 1

CreatePost(body, now) ==
    IF ~body.ok \/ body.Content = ""
    THEN /\ resp' = [op |-> "CreatePost", arg |-> 0, status |-> StatusBadRequest,
                     body |-> "Invalid data"]
         /\ UNCHANGED <<postsVars, notPosts>>
    ELSE IF PostsIsNil
    THEN \* assignment to entry in nil map
         /\ resp' = [op |-> "CreatePost", arg |-> 0, status |-> Aborted,
                     body |-> "panic"]
         /\ UNCHANGED <<postsVars, notPosts>>
    ELSE LET newID == NewPostID(Posts)
         IN  /\ Posts' = MapPut(Posts, newID,
                             Post(newID, 1, body.Content, now, body.MediaIDs, FALSE))
             /\ resp' = [op |-> "CreatePost", arg |-> newID, status |-> StatusCreated,
                         body |-> "Post created"]
             /\ UNCHANGED <<PostsIsNil, notPosts>>

\* the condition without the comparison of the author
NotTheAuthor_AnyAuthor(store, postID) ==
    \/ postID \notin DOMAIN store
    \/ store[postID].IsDeleted

\* !exists || post.IsDeleted || post.UserID != 1
NotTheAuthor(store, postID) ==
    \/ postID \notin DOMAIN store
    \/ store[postID].IsDeleted
    \/ store[postID].UserID # 1

\* UpdatePost up to json.Decode: the path variable, the read of the post
\* into a copy, and the test of the copy.  Decode then waits for the body of
\* the request; the handler holds no lock while it waits.
UpdatePost_Read(postID) ==
    IF NotTheAuthor(Posts, postID)
    THEN /\ resp' = [op |-> "UpdatePost", arg |-> postID,
                     status |-> StatusForbidden, body |-> "Unauthorized or not the author"]
         /\ UNCHANGED <<postsVars, notPosts>>
    ELSE /\ Len(inflight) < MaxInFlight
         /\ inflight' = Append(inflight,
                [Goroutine("PostsHandler", "UpdatePost", postID)
                     EXCEPT !.pc = "decode", !.local = Posts[postID]])
         /\ UNCHANGED <<stores, resp>>

\* UpdatePost from json.Decode on: the body is decoded, the copy read
\* earlier is changed and stored under the post id
UpdatePost_Write(i, body) ==
    LET postID == inflight[i].req
        post == inflight[i].local
        post1 == IF body.Content # "" THEN [post EXCEPT !.Content = body.Content]
                 ELSE post
        post2 == IF ~body.MediaIDs.isNil THEN [post1 EXCEPT !.MediaIDs = body.MediaIDs]
                 ELSE post1
    IN  /\ At(i, "UpdatePost", "decode")
        /\ inflight' = RemoveAt(inflight, i)
        /\ IF ~body.ok
           THEN /\ resp' = [op |-> "UpdatePost", arg |-> postID, req |-> body,
                            status |-> StatusBadRequest, body |-> "Invalid data"]
                /\ UNCHANGED stores
           ELSE /\ Posts' = MapPut(Posts, postID, post2)
                /\ resp' = [op |-> "UpdatePost", arg |-> postID, req |-> body,
                            status |-> StatusOK, body |-> "Post updated"]
                /\ UNCHANGED <<PostsIsNil, besidesPosts>>

DeletePost(postID) ==
    IF NotTheAuthor(Posts, postID)
    THEN /\ resp' = [op |-> "DeletePost", arg |-> postID,
                     status |-> StatusForbidden, body |-> "Unauthorized or not the author"]
         /\ UNCHANGED <<postsVars, notPosts>>
    ELSE /\ Posts' = MapPut(Posts, postID, [Posts[postID] EXCEPT !.IsDeleted = TRUE])
         /\ resp' = [op |-> "DeletePost", arg |-> postID,
                     status |-> StatusOK, body |-> "Post soft deleted"]
         /\ UNCHANGED <<PostsIsNil, notPosts>>

\* the offset / limit parameters tried while the store is being changed
FewOffsets == {QAbsent, QNum(Z(1))}
FewLimits == {QAbsent, QNum(Z(MaxPosts))}

NextPosts ==
    \/ \E id \in PostIds : GetPost(id)
    \/ \E u \in UserIds, o \in FewOffsets, l \in FewLimits : GetUserPosts(u, o, l)
    \/ \E o \in FewOffsets, l \in FewLimits : GetOwnPosts(o, l)
    \/ /\ Cardinality(DOMAIN Posts) < MaxPosts
       /\ \E b \in CreateBodies, t \in Times : CreatePost(b, t)
    \/ \E id \in PostIds : UpdatePost_Read(id)
    \/ \E i \in DOMAIN inflight, b \in UpdateBodies : UpdatePost_Write(i, b)
    \/ \E id \in PostIds : DeletePost(id)

(***************************************************************************)
(* ProfileHandler (the variant that keeps a store)                         *)
(***************************************************************************)
\* a string is a sequence of characters; strings.ToLower on ASCII letters
LowerChar(c) == CASE c = "A" -> "a" [] c = "B" -> "b" [] OTHER -> c
ToLower(str) == [i \in DOMAIN str |-> LowerChar(str[i])]

\* strings.Contains
Contains(str, substr) ==
    \E i \in 0..(Len(str) - Len(substr)) : SubSeq(str, i + 1, i + Len(substr)) = substr

containsIgnoreCase(str, substr) ==
    \/ Len(substr) = 0
    \/ /\ Len(str) >= Len(substr)
       /\ Contains(ToLower(str), ToLower(substr))

UserProfile(id, name, avatar, bio, private) ==
    [UserID |-> id, Username |-> name, Avatar |-> avatar, Bio |-> bio,
     CreatedAt |-> 0, IsPrivate |-> private]

ProfileIds == 1..MaxProfiles
SeedNames == {<<"a">>, <<"A", "b">>}
SearchQueries == {<<>>, <<"B">>}

\* the stores the handler may be serving: any set of users, each under its id
SeedProfileStores ==
    UNION {{[k \in K |-> UserProfile(k, n[k], "", "", p[k])] :
                n \in [K -> SeedNames], p \in [K -> BOOLEAN]} : K \in SUBSET ProfileIds}

InitProfile == Users \in SeedProfileStores

\* the {user_id} path variable of GetProfile, as a query value
GetProfile(idQ) ==
    LET id == Atoi(idQ)
    IN  /\ resp' =
             IF id.err
             THEN [op |-> "GetProfile", arg |-> idQ, status |-> StatusBadRequest,
                   body |-> "Invalid user ID"]
             ELSE IF id.val.b # "z" \/ id.val.d \notin DOMAIN Users
             THEN [op |-> "GetProfile", arg |-> idQ, status |-> StatusNotFound,
                   body |-> "User not found"]
             ELSE IF Users[id.val.d].IsPrivate
             THEN [op |-> "GetProfile", arg |-> idQ, status |-> StatusForbidden,
                   body |-> "Private profile"]
             ELSE [op |-> "GetProfile", arg |-> idQ, status |-> StatusOK,
                   body |-> Users[id.val.d]]
        /\ UNCHANGED <<profileVars, notProfile>>

\* a body after json.Decode into a UserProfile
BadProfileBody == [ok |-> FALSE, Username |-> <<>>, Avatar |-> "", Bio |-> ""]
ProfileBody(name, avatar, bio) ==
    [ok |-> TRUE, Username |-> name, Avatar |-> avatar, Bio |-> bio]
ProfileBodies ==
    {BadProfileBody, ProfileBody(<<>>, "", ""), ProfileBody(<<"b">>, "", ""),
     ProfileBody(<<>>, "v", "o")}

UpdateProfile(body) ==
    IF ~body.ok
    THEN /\ resp' = [op |-> "UpdateProfile", arg |-> body, status |-> StatusBadRequest,
                     body |-> "Invalid data"]
         /\ UNCHANGED <<profileVars, notProfile>>
    ELSE IF 1 \notin DOMAIN Users
    THEN /\ resp' = [op |-> "UpdateProfile", arg |-> body, status |-> StatusForbidden,
                     body |-> "Unauthorized"]
         /\ UNCHANGED <<profileVars, notProfile>>
    ELSE LET u0 == Users[1]
             u1 == IF body.Username # <<>> THEN [u0 EXCEPT !.Username = body.Username] ELSE u0
             u2 == IF body.Avatar # "" THEN [u1 EXCEPT !.Avatar = body.Avatar] ELSE u1
             u3 == IF body.Bio # "" THEN [u2 EXCEPT !.Bio = body.Bio] ELSE u2
         IN  /\ Users' = MapPut(Users, 1, u3)
             /\ resp' = [op |-> "UpdateProfile", arg |-> body, status |-> StatusOK,
                         body |-> "Profile updated"]
             /\ UNCHANGED notProfile

\* the keys of the users the loop of SearchUsers keeps
SearchKeys(store, q) ==
    {k \in DOMAIN store : q = <<>> \/ containsIgnoreCase(store[k].Username, q)}

SearchUsers(q, offsetQ, limitQ) ==
    /\ \E order \in Orders(SearchKeys(Users, q)) :
         LET usersList == [i \in DOMAIN order |-> Users[order[i]]]
             page == ClampedPage(usersList, offsetQ, limitQ)
         IN  resp' =
               IF page.panic
               THEN ListResp("SearchUsers", q, offsetQ, limitQ, Aborted, <<>>, 0)
               ELSE ListResp("SearchUsers", q, offsetQ, limitQ, StatusOK,
                             page.val, Len(usersList))
    /\ UNCHANGED <<profileVars, notProfile>>

\* the values tried for a numeric query parameter or path variable
QueryValues ==
    {QAbsent, QText, QRange, QNum(Hi(0))} \cup {QNum(Z(n)) : n \in (0 - 1)..MaxQuery}

NextProfile ==
    \/ \E idQ \in QueryValues : GetProfile(idQ)
    \/ \E b \in ProfileBodies : UpdateProfile(b)
    \/ \E q \in SearchQueries, o \in QueryValues, l \in QueryValues : SearchUsers(q, o, l)

(***************************************************************************)
(* NotificationHandler                                                     *)
(***************************************************************************)
Notification(id, source, read) ==
    [ID |-> id, Type |-> "like", SourceUserID |-> source, PostID |-> 0,
     Read |-> read, CreatedAt |-> 0]

\* no request adds a notification: the list is whatever the handler holds,
\* notification i carrying id i
SeedNotificationLists ==
    UNION {{[i \in 1..n |-> Notification(i, src[i], rd[i])] :
                src \in [1..n -> {1, 2}], rd \in [1..n -> BOOLEAN]} : n \in 0..MaxNotifications}

InitNotifications == notifications \in SeedNotificationLists

DefaultLimit == 10

GetNotifications(offsetQ, limitQ) ==
    LET offset == Atoi(offsetQ).val
        limit == IF Atoi(limitQ).err THEN Z(DefaultLimit) ELSE Atoi(limitQ).val
        total == Len(notifications)
        end0 == Add64(offset, limit)
        end == IF Lt64(Z(total), end0) THEN Z(total) ELSE end0
        result == SliceExpr(notifications, offset, end)
    IN  /\ resp' =
             IF result.panic
             THEN ListResp("GetNotifications", 0, offsetQ, limitQ, Aborted, <<>>, 0)
             ELSE ListResp("GetNotifications", 0, offsetQ, limitQ, StatusOK,
                           result.val, total)
        /\ UNCHANGED <<notificationVars, notNotifications>>

\* index of the first notification with the given id, 0 if none
RECURSIVE IndexOfNotificationFrom(_, _, _)
IndexOfNotificationFrom(list, id, i) ==
    IF i > Len(list) THEN 0
    ELSE IF Z(list[i].ID) = id THEN i
    ELSE IndexOfNotificationFrom(list, id, i + 1)

\* MarkAsRead that flips the flag
MarkAsRead_Toggle(idQ) ==
    LET id == Atoi(idQ)
        i == IndexOfNotificationFrom(notifications, id.val, 1)
    IN  IF id.err
        THEN /\ resp' = [op |-> "MarkAsRead", arg |-> idQ, status |-> StatusBadRequest,
                         body |-> "Invalid notification ID"]
             /\ UNCHANGED <<notificationVars, notNotifications>>
        ELSE IF i = 0
        THEN /\ resp' = [op |-> "MarkAsRead", arg |-> idQ, status |-> StatusNotFound,
                         body |-> "Notification not found"]
             /\ UNCHANGED <<notificationVars, notNotifications>>
        ELSE IF notifications[i].SourceUserID # 1
        THEN /\ resp' = [op |-> "MarkAsRead", arg |-> idQ, status |-> StatusForbidden,
                         body |-> "Forbidden"]
             /\ UNCHANGED <<notificationVars, notNotifications>>
        ELSE /\ notifications' = [notifications EXCEPT ![i].Read = ~@]
             /\ resp' = [op |-> "MarkAsRead", arg |-> idQ, status |-> StatusOK,
                         body |-> "Notification marked as read"]
             /\ UNCHANGED notNotifications

MarkAsRead(idQ) ==
    LET id == Atoi(idQ)
        i == IndexOfNotificationFrom(notifications, id.val, 1)
    IN  IF id.err
        THEN /\ resp' = [op |-> "MarkAsRead", arg |-> idQ, status |-> StatusBadRequest,
                         body |-> "Invalid notification ID"]
             /\ UNCHANGED <<notificationVars, notNotifications>>
        ELSE IF i = 0
        THEN /\ resp' = [op |-> "MarkAsRead", arg |-> idQ, status |-> StatusNotFound,
                         body |-> "Notification not found"]
             /\ UNCHANGED <<notificationVars, notNotifications>>
        ELSE IF notifications[i].SourceUserID # 1
        THEN /\ resp' = [op |-> "MarkAsRead", arg |-> idQ, status |-> StatusForbidden,
                         body |-> "Forbidden"]
             /\ UNCHANGED <<notificationVars, notNotifications>>
        ELSE /\ notifications' = [notifications EXCEPT ![i].Read = TRUE]
             /\ resp' = [op |-> "MarkAsRead", arg |-> idQ, status |-> StatusOK,
                         body |-> "Notification marked as read"]
             /\ UNCHANGED notNotifications

NextNotifications ==
    \/ \E o \in QueryValues, l \in QueryValues : GetNotifications(o, l)
    \/ \E idQ \in QueryValues : MarkAsRead(idQ)

(***************************************************************************)
(* FeedsHandler                                                            *)
(***************************************************************************)
\* A created_at string: the RFC 3339 text of the instant sec seconds after
\* the Unix epoch, or a text in another layout.
RFC3339(sec) == [layout |-> "RFC3339", sec |-> sec]

\* A time.Time: the zero value (January 1, year 1, 00:00:00 UTC), or the
\* instant sec seconds after the Unix epoch.
ZeroTime == [zero |-> TRUE, sec |-> 0]
Instant(sec) == [zero |-> FALSE, sec |-> sec]

\* t.Before(u), every instant of the model lying after the zero time
Before(t, u) ==
    IF t.zero THEN ~u.zero
    ELSE ~u.zero /\ t.sec < u.sec

\* time.Parse(time.RFC3339, str): the instant, or the zero time and an error
ParseRFC3339(str) ==
    IF str.layout = "RFC3339"
    THEN [t |-> Instant(str.sec), err |-> FALSE]
    ELSE [t |-> ZeroTime, err |-> TRUE]

\* time.Unix(t, 0), for t within the years of time.Time
Unix(t) == Instant(t.d)

\* t.Unix(): seconds since the Unix epoch; the zero time is -62135596800,
\* written here relative to itself
UnixSeconds(t) == IF t.zero THEN [b |-> "zerotime", d |-> 0] ELSE Z(t.sec)

\* strconv.FormatInt(n, 10): the decimal text of n
FormatInt(n) == QNum(n)

FeedItem(postID, createdAt) ==
    [PostID |-> postID, UserID |-> 1, Content |-> "s", CreatedAt |-> createdAt]

FeedDefaultLimit == 10

FeedTimes == 1..MaxFeeds

\* a feed longer than the default limit, newest first
LongFeed ==
    [i \in 1..(FeedDefaultLimit + 1) |-> FeedItem(i, RFC3339(FeedDefaultLimit + 2 - i))]

\* no request adds a feed item: the list is whatever the handler holds,
\* items of distinct creation times in any storage order
SeedFeedLists ==
    {LongFeed} \cup
    UNION {{[i \in 1..n |-> FeedItem(i, RFC3339(t[i]))] :
                t \in {f \in [1..n -> FeedTimes] : \A i, j \in 1..n : f[i] = f[j] => i = j}} :
               n \in 0..MaxFeeds}

InitFeeds == feeds \in SeedFeedLists

\* the test that ends the loop: len(result) >= limit
LimitReached_Late(result, limit) == Lt64(limit, Z(Len(result)))

LimitReached(result, limit) == Le64(limit, Z(Len(result)))

\* the loop over h.feeds from index i on, result holding what was kept so far
RECURSIVE FilterFeeds(_, _, _, _, _, _)
FilterFeeds(list, i, result, beforeTime, beforeAbsent, limit) ==
    IF i > Len(list) THEN result
    ELSE LET created == ParseRFC3339(list[i].CreatedAt).t
         IN  IF Before(created, beforeTime) \/ beforeAbsent
             THEN LET kept == Append(result, list[i])
                  IN  IF LimitReached(kept, limit) THEN kept
                      ELSE FilterFeeds(list, i + 1, kept, beforeTime, beforeAbsent, limit)
             ELSE FilterFeeds(list, i + 1, result, beforeTime, beforeAbsent, limit)

\* GET /feeds?before&limit, served at instant now (Unix seconds)
GetNewsFeed(beforeQ, limitQ, now) ==
    LET limit == IF limitQ.kind # "absent" /\ ~Atoi(limitQ).err
                 THEN Atoi(limitQ).val ELSE Z(FeedDefaultLimit)
        beforeAbsent == beforeQ.kind = "absent"
        beforeTime == IF beforeAbsent THEN Instant(now)
                      ELSE IF Atoi(beforeQ).err THEN ZeroTime
                      ELSE Unix(Atoi(beforeQ).val)
        result == FilterFeeds(feeds, 1, <<>>, beforeTime, beforeAbsent, limit)
        nextCursor == IF Len(result) > 0
                      THEN FormatInt(UnixSeconds(ParseRFC3339(result[Len(result)].CreatedAt).t))
                      ELSE QAbsent
    IN  /\ resp' = [op |-> "GetNewsFeed", arg |-> beforeQ, limit |-> limitQ, now |-> now,
                    status |-> StatusOK, body |-> result, next_cursor |-> nextCursor]
        /\ UNCHANGED <<feedsVars, notFeeds>>

BeforeValues == {QAbsent, QText} \cup {QNum(Z(n)) : n \in 1..(MaxFeeds + 1)}
LimitValues == {QAbsent, QText, QNum(Hi(0))} \cup {QNum(Z(n)) : n \in (0 - 1)..2}
Nows == {2, MaxFeeds + 1}

NextFeeds ==
    \E b \in BeforeValues, l \in LimitValues, now \in Nows : GetNewsFeed(b, l, now)

(***************************************************************************)
(* ReactionsHandler                                                        *)
(***************************************************************************)
\* strings.TrimSpace on a string held as a sequence of characters
RECURSIVE TrimSpace(_)
TrimSpace(str) ==
    IF str = <<>> THEN str
    ELSE IF Head(str) = " " THEN TrimSpace(Tail(str))
    ELSE IF str[Len(str)] = " " THEN TrimSpace(SubSeq(str, 1, Len(str) - 1))
    ELSE str

\* the user every reaction request acts for
reactionUserID == "user1"

\* delete(m, k)
MapDelete(m, k) == [x \in (DOMAIN m) \ {k} |-> m[x]]

\* the post_id path segments of the requests: the decimal texts of 1, 2, ...
ReactionPostIDs == 1..MaxReactionPosts
BadReactionBody == [ok |-> FALSE, ReactionType |-> <<>>]
ReactionBody(type) == [ok |-> TRUE, ReactionType |-> type]
ReactionBodies ==
    {BadReactionBody} \cup
    {ReactionBody(t) : t \in {<<>>, <<" ">>, <<"l">>, <<"h">>, <<" ", "h">>}}

\* no request stores a reaction of another user: a post of the store may
\* already carry the reaction of user2
SeedReactionStores ==
    {[p \in S |-> MapPut(EmptyMap, "user2", <<"l">>)] : S \in SUBSET ReactionPostIDs}

InitReactions ==
    \/ /\ ReactionsIsNil = TRUE       \* &apis.ReactionsHandler{} of main
       /\ reactions = EmptyMap
    \/ /\ ReactionsIsNil = FALSE      \* NewReactionsHandler
       /\ reactions \in SeedReactionStores

GetReactions(postID) ==
    IF postID \notin DOMAIN reactions
    THEN /\ resp' = [op |-> "GetReactions", arg |-> postID, status |-> StatusNotFound,
                     body |-> "Post not found"]
         /\ UNCHANGED <<reactionsVars, notReactions>>
    ELSE LET postReactions == reactions[postID]
             count == Cardinality(DOMAIN postReactions)
             typeSet == {postReactions[u] : u \in DOMAIN postReactions}
         IN  /\ \E users \in Orders(DOMAIN postReactions), types \in Orders(typeSet) :
                    resp' = [op |-> "GetReactions", arg |-> postID, status |-> StatusOK,
                             body |-> [Count |-> count, Types |-> types,
                                       Users |-> users, Total |-> count]]
             /\ UNCHANGED <<reactionsVars, notReactions>>

\* h.reactions[postID][userID] = reactionType, but kept when already set
SetReaction_FirstWins(store, postID, userID, reactionType) ==
    LET postReactions == IF postID \in DOMAIN store THEN store[postID] ELSE EmptyMap
    IN  IF userID \in DOMAIN postReactions THEN store
        ELSE MapPut(store, postID, MapPut(postReactions, userID, reactionType))

\* the inner map is made on the first reaction to the post, then
\* h.reactions[postID][userID] = reactionType
SetReaction(store, postID, userID, reactionType) ==
    LET postReactions == IF postID \in DOMAIN store THEN store[postID] ELSE EmptyMap
    IN  MapPut(store, postID, MapPut(postReactions, userID, reactionType))

ReactToPost(postID, body) ==
    IF ~body.ok \/ TrimSpace(body.ReactionType) = <<>>
    THEN /\ resp' = [op |-> "ReactToPost", arg |-> postID, req |-> body,
                     status |-> StatusBadRequest, body |-> "Invalid reaction type"]
         /\ UNCHANGED <<reactionsVars, notReactions>>
    ELSE IF ReactionsIsNil
    THEN \* assignment to an entry in the nil map
         /\ resp' = [op |-> "ReactToPost", arg |-> postID, req |-> body,
                     status |-> Aborted, body |-> "panic"]
         /\ UNCHANGED <<reactionsVars, notReactions>>
    ELSE /\ reactions' = SetReaction(reactions, postID, reactionUserID, body.ReactionType)
         /\ resp' = [op |-> "ReactToPost", arg |-> postID, req |-> body,
                     status |-> StatusCreated, body |-> "Reaction added"]
         /\ UNCHANGED <<ReactionsIsNil, notReactions>>

\* delete(h.reactions, postID) in place of delete(postReactions, userID)
RemoveFrom_WholePost(store, postID, userID) == MapDelete(store, postID)

\* delete(postReactions, userID), postReactions being h.reactions[postID]
RemoveFrom(store, postID, userID) ==
    [store EXCEPT ![postID] = MapDelete(store[postID], userID)]

\* m[k] on a map of strings: the empty string when the key is missing
MapGetString(m, k) == IF k \in DOMAIN m THEN m[k] ELSE <<>>

RemoveReaction(postID) ==
    IF \/ postID \notin DOMAIN reactions
       \/ MapGetString(reactions[postID], reactionUserID) = <<>>
    THEN /\ resp' = [op |-> "RemoveReaction", arg |-> postID, status |-> StatusNotFound,
                     body |-> "Reaction not found"]
         /\ UNCHANGED <<reactionsVars, notReactions>>
    ELSE /\ reactions' = RemoveFrom(reactions, postID, reactionUserID)
         /\ resp' = [op |-> "RemoveReaction", arg |-> postID, status |-> StatusOK,
                     body |-> "Reaction removed"]
         /\ UNCHANGED <<ReactionsIsNil, notReactions>>

NextReactions ==
    \/ \E p \in ReactionPostIDs : GetReactions(p)
    \/ \E p \in ReactionPostIDs, b \in ReactionBodies : ReactToPost(p, b)
    \/ \E p \in ReactionPostIDs : RemoveReaction(p)

(***************************************************************************)
(* CommentsHandler                                                         *)
(***************************************************************************)
Created0 == "2025-08-15T00:00:00Z"
Updated1 == "2025-08-15T01:00:00Z"

\* the comment CreateComment builds, but authored by user 2
NewComment_OtherAuthor(id, content) ==
    [CommentID |-> id, UserID |-> 2, Username |-> "user1", Content |-> content,
     CreatedAt |-> Created0, UpdatedAt |-> Created0, IsDeleted |-> FALSE]

\* the comment CreateComment builds
NewComment(id, content) ==
    [CommentID |-> id, UserID |-> 1, Username |-> "user1", Content |-> content,
     CreatedAt |-> Created0, UpdatedAt |-> Created0, IsDeleted |-> FALSE]

\* the int a path variable becomes: strconv.Atoi with the error dropped
PathInt(q) == Atoi(q).val

BadCommentBody == [ok |-> FALSE, Content |-> ""]
CommentBody(content) == [ok |-> TRUE, Content |-> content]
CreateCommentBodies == {BadCommentBody, CommentBody(""), CommentBody("a")}
UpdateCommentBodies == {BadCommentBody, CommentBody(""), CommentBody("b")}

\* path variables: a text that is no number, or a small number
CommentPostIDs == {QText, QNum(Z(1)), QRange}
CommentIDs == {QText, QRange} \cup {QNum(Z(n)) : n \in 1..(MaxComments + 1)}

InitComments == comments = EmptyMap /\ nextID = 1

GetComments(postIDQ) ==
    LET postID == PathInt(postIDQ)
    IN  /\ resp' =
             IF postID \notin DOMAIN comments
             THEN [op |-> "GetComments", arg |-> postIDQ, status |-> StatusNotFound,
                   body |-> "Post not found"]
             ELSE [op |-> "GetComments", arg |-> postIDQ, status |-> StatusOK,
                   body |-> [Comments |-> comments[postID],
                             Total |-> Len(comments[postID])]]
        /\ UNCHANGED <<commentsVars, notComments>>

CreateComment(postIDQ, body) ==
    LET postID == PathInt(postIDQ)
    IN  IF ~body.ok \/ body.Content = ""
        THEN /\ resp' = [op |-> "CreateComment", arg |-> postIDQ,
                         status |-> StatusBadRequest, body |-> "Invalid content"]
             /\ UNCHANGED <<commentsVars, notComments>>
        ELSE LET comment == NewComment(nextID, body.Content)
             IN  /\ nextID' = nextID + 1
                 /\ comments' = MapPut(comments, postID,
                                       Append(MapGetSlice(comments, postID), comment))
                 /\ resp' = [op |-> "CreateComment", arg |-> postIDQ,
                             status |-> StatusCreated,
                             body |-> [CommentID |-> comment.CommentID,
                                       Message |-> "Comment created"]]
                 /\ UNCHANGED notComments

\* index of the first comment of the list with the given id, 0 if none
RECURSIVE IndexOfCommentFrom(_, _, _)
IndexOfCommentFrom(list, id, i) ==
    IF i > Len(list) THEN 0
    ELSE IF Z(list[i].CommentID) = id THEN i
    ELSE IndexOfCommentFrom(list, id, i + 1)

\* the two loops of UpdateComment: in the list of every post the first
\* comment with the id gets the content and the time of the update
UpdateIn(store, commentID, content) ==
    [p \in DOMAIN store |->
        LET i == IndexOfCommentFrom(store[p], commentID, 1)
        IN  IF i = 0 THEN store[p]
            ELSE [store[p] EXCEPT ![i].Content = content, ![i].UpdatedAt = Updated1]]

\* the two loops of DeleteComment: in the list of every post the first
\* comment with the id is flagged as deleted
DeleteIn(store, commentID) ==
    [p \in DOMAIN store |->
        LET i == IndexOfCommentFrom(store[p], commentID, 1)
        IN  IF i = 0 THEN store[p]
            ELSE [store[p] EXCEPT ![i].IsDeleted = TRUE]]

CommentFound(store, commentID) ==
    \E p \in DOMAIN store : IndexOfCommentFrom(store[p], commentID, 1) # 0

UpdateComment(commentIDQ, body) ==
    LET commentID == PathInt(commentIDQ)
    IN  IF ~body.ok \/ body.Content = ""
        THEN /\ resp' = [op |-> "UpdateComment", arg |-> commentIDQ,
                         status |-> StatusBadRequest, body |-> "Invalid content"]
             /\ UNCHANGED <<commentsVars, notComments>>
        ELSE IF ~CommentFound(comments, commentID)
        THEN /\ resp' = [op |-> "UpdateComment", arg |-> commentIDQ,
                         status |-> StatusNotFound, body |-> "Comment not found"]
             /\ UNCHANGED <<commentsVars, notComments>>
        ELSE /\ comments' = UpdateIn(comments, commentID, body.Content)
             /\ resp' = [op |-> "UpdateComment", arg |-> commentIDQ,
                         status |-> StatusOK, body |-> "Comment updated"]
             /\ UNCHANGED <<nextID, notComments>>

DeleteComment(commentIDQ) ==
    LET commentID == PathInt(commentIDQ)
    IN  IF ~CommentFound(comments, commentID)
        THEN /\ resp' = [op |-> "DeleteComment", arg |-> commentIDQ,
                         status |-> StatusNotFound, body |-> "Comment not found"]
             /\ UNCHANGED <<commentsVars, notComments>>
        ELSE /\ comments' = DeleteIn(comments, commentID)
             /\ resp' = [op |-> "DeleteComment", arg |-> commentIDQ,
                         status |-> StatusOK, body |-> "Comment soft deleted"]
             /\ UNCHANGED <<nextID, notComments>>

NextComments ==
    \/ \E p \in CommentPostIDs : GetComments(p)
    \/ /\ nextID <= MaxComments
       /\ \E p \in CommentPostIDs, b \in CreateCommentBodies : CreateComment(p, b)
    \/ \E c \in CommentIDs, b \in UpdateCommentBodies : UpdateComment(c, b)
    \/ \E c \in CommentIDs : DeleteComment(c)

(***************************************************************************)
(* AuthHandler                                                             *)
(***************************************************************************)
User(id, username, email, password, deleted) ==
    [ID |-> id, Username |-> username, Email |-> email, Password |-> password,
     IsDeleted |-> deleted]

\* the key of the current user in ChangePassword and DeleteAccount
alice == <<"a", "l", "i", "c", "e">>

Methods == {"POST", "PUT", "DELETE"}
Passwords == {<<"p">>, <<"q">>}

\* the people who register: a user name with its e-mail address
People ==
    {<<alice, <<"a", "@", "x">>>>,
     <<<<"A", "l", "i", "c", "e">>, <<"A", "@", "x">>>>,
     <<<<"b", "o", "b">>, <<"b", "@", "x">>>>}

BadAuthBody == [ok |-> FALSE]
RegisterRequest(username, email, password) ==
    [ok |-> TRUE, Username |-> username, Email |-> email, Password |-> password]
RegisterBodies ==
    {BadAuthBody, RegisterRequest(alice, <<>>, <<"p">>)} \cup
    {RegisterRequest(who[1], who[2], <<"p">>) : who \in People}

LoginRequest(login, password) == [ok |-> TRUE, Login |-> login, Password |-> password]
LoginBodies ==
    {BadAuthBody} \cup
    {LoginRequest(name, pw) :
         name \in {alice, <<"A", "@", "x">>, <<"b", "o", "b">>},
         pw \in Passwords}

ChangePasswordRequest(old, new) ==
    [ok |-> TRUE, OldPassword |-> old, NewPassword |-> new]
ChangePasswordBodies ==
    {BadAuthBody} \cup {ChangePasswordRequest(o, n) : o \in Passwords, n \in Passwords}

\* main builds the handler with an empty map
InitAuth == AuthUsers = EmptyMap

MethodNotAllowed(opName, method) ==
    [op |-> opName, method |-> method, status |-> StatusMethodNotAllowed,
     body |-> "Method Not Allowed"]

Register(method, body) ==
    IF method # "POST"
    THEN /\ resp' = MethodNotAllowed("Register", method)
         /\ UNCHANGED <<authVars, notAuth>>
    ELSE IF \/ ~body.ok
            \/ body.Username = <<>> \/ body.Email = <<>> \/ body.Password = <<>>
    THEN /\ resp' = [op |-> "Register", method |-> method, req |-> body,
                     status |-> StatusBadRequest, body |-> "Invalid data"]
         /\ UNCHANGED <<authVars, notAuth>>
    ELSE LET newID == Cardinality(DOMAIN AuthUsers) + 1
             user == User(newID, body.Username, body.Email, body.Password, FALSE)
         IN  /\ AuthUsers' = MapPut(MapPut(AuthUsers, ToLower(body.Username), user),
                                    ToLower(body.Email), user)
             /\ resp' = [op |-> "Register", method |-> method, req |-> body,
                         status |-> StatusOK,
                         body |-> [user_id |-> newID, token |-> "fake-jwt-token"]]
             /\ UNCHANGED notAuth

Login(method, body) ==
    /\ resp' =
         IF method # "POST" THEN MethodNotAllowed("Login", method)
         ELSE IF ~body.ok
         THEN [op |-> "Login", method |-> method, req |-> body,
               status |-> StatusBadRequest, body |-> "Invalid data"]
         ELSE LET key == ToLower(body.Login)
              IN  IF \/ key \notin DOMAIN AuthUsers
                     \/ AuthUsers[key].Password # body.Password
                     \/ AuthUsers[key].IsDeleted
                  THEN [op |-> "Login", method |-> method, req |-> body,
                        status |-> StatusUnauthorized, body |-> "Invalid credentials"]
                  ELSE [op |-> "Login", method |-> method, req |-> body,
                        status |-> StatusOK, body |-> [token |-> "fake-jwt-token"]]
    /\ UNCHANGED <<authVars, notAuth>>

\* ChangePassword up to json.Decode: the method, and the read of the current
\* user into a copy.  Decode then waits for the body of the request; the
\* handler holds no lock while it waits.
ChangePassword_Read(method) ==
    IF method # "PUT"
    THEN /\ resp' = MethodNotAllowed("ChangePassword", method)
         /\ UNCHANGED <<authVars, notAuth>>
    ELSE IF alice \notin DOMAIN AuthUsers
    THEN /\ resp' = [op |-> "ChangePassword", method |-> method,
                     status |-> StatusForbidden, body |-> "Unauthorized"]
         /\ UNCHANGED <<authVars, notAuth>>
    ELSE /\ Len(inflight) < MaxInFlight
         /\ inflight' = Append(inflight,
                [Goroutine("AuthHandler", "ChangePassword", method)
                     EXCEPT !.pc = "decode", !.local = AuthUsers[alice]])
         /\ UNCHANGED <<stores, resp>>

\* ChangePassword from json.Decode on: the old password is compared with the
\* copy read earlier, and the copy with the new password is stored
ChangePassword_Write(i, body) ==
    LET method == inflight[i].req
        currentUser == inflight[i].local
    IN  /\ At(i, "ChangePassword", "decode")
        /\ inflight' = RemoveAt(inflight, i)
        /\ IF ~body.ok
           THEN /\ resp' = [op |-> "ChangePassword", method |-> method, req |-> body,
                            status |-> StatusBadRequest, body |-> "Invalid data"]
                /\ UNCHANGED stores
           ELSE IF currentUser.Password # body.OldPassword
           THEN /\ resp' = [op |-> "ChangePassword", method |-> method, req |-> body,
                            status |-> StatusForbidden, body |-> "Invalid old password"]
                /\ UNCHANGED stores
           ELSE /\ AuthUsers' = MapPut(AuthUsers, alice,
                                       [currentUser EXCEPT !.Password = body.NewPassword])
                /\ resp' = [op |-> "ChangePassword", method |-> method, req |-> body,
                            status |-> StatusOK, body |-> "Password updated"]
                /\ UNCHANGED besidesAuth

DeleteAccount(method) ==
    IF method # "DELETE"
    THEN /\ resp' = MethodNotAllowed("DeleteAccount", method)
         /\ UNCHANGED <<authVars, notAuth>>
    ELSE IF alice \notin DOMAIN AuthUsers
    THEN /\ resp' = [op |-> "DeleteAccount", method |-> method,
                     status |-> StatusForbidden, body |-> "Unauthorized"]
         /\ UNCHANGED <<authVars, notAuth>>
    ELSE /\ AuthUsers' = [AuthUsers EXCEPT ![alice].IsDeleted = TRUE]
         /\ resp' = [op |-> "DeleteAccount", method |-> method,
                     status |-> StatusOK, body |-> "Account soft deleted"]
         /\ UNCHANGED notAuth

NextAuth ==
    \/ \E mt \in Methods, b \in RegisterBodies : Register(mt, b)
    \/ \E mt \in Methods, b \in LoginBodies : Login(mt, b)
    \/ \E mt \in Methods : ChangePassword_Read(mt)
    \/ \E i \in DOMAIN inflight, b \in ChangePasswordBodies : ChangePassword_Write(i, b)
    \/ \E mt \in Methods : DeleteAccount(mt)

(***************************************************************************)
(* MediaHandler                                                            *)
(***************************************************************************)
Media(id, type, postID, url) == [ID |-> id, Type |-> type, PostID |-> postID, URL |-> url]

\* a file name is the sequence of its path elements; filepath.Base of it
Base(filename) == IF filename = <<>> THEN "." ELSE filename[Len(filename)]

\* A path is the sequence of its elements, each element the sequence of its
\* pieces.  filepath.Clean drops the "." elements; a path with nothing left
\* is ".".
Dot == <<".">>
RECURSIVE DropDots(_)
DropDots(path) ==
    IF path = <<>> THEN <<>>
    ELSE IF Head(path) = Dot THEN DropDots(Tail(path))
    ELSE <<Head(path)>> \o DropDots(Tail(path))
Clean(path) == IF DropDots(path) = <<>> THEN <<Dot>> ELSE DropDots(path)

\* filepath.Join(dir, name): the elements joined, then Clean
Join(dir, name) == Clean(dir \o <<name>>)

\* uploadDir := "./uploads"
uploadDir == <<Dot, <<"uploads">>>>

\* filepath.Join(uploadDir, fmt.Sprintf("%d_%s", id, filepath.Base(filename)))
DstPath(id, filename) == Join(uploadDir, <<id, "_", Base(filename)>>)

\* the multipart request: whether the form parses, its type and post_id
\* values, whether it carries the file part, and the name of the file
BadForm == [form |-> FALSE, type |-> "", post_id |-> QAbsent, file |-> FALSE, filename |-> <<>>]
Upload(type, postIDQ, file) ==
    [form |-> TRUE, type |-> type, post_id |-> postIDQ, file |-> file,
     filename |-> IF file THEN <<"d", "a">> ELSE <<>>]
UploadRequests ==
    {BadForm} \cup
    {Upload(t, p, f) : t \in {"image", "video", "audio", ""},
                       p \in {QAbsent, QText, QRange, QNum(Z(0 - 1)), QNum(Z(0)), QNum(Z(1)),
                              QNum(Hi(0))},
                       f \in BOOLEAN}

\* what the file system does with the three steps of the save: MkdirAll,
\* os.Create, io.Copy.  The file cannot be created in a directory that
\* could not be made, nor copied into when it was not created.
FsOutcomes ==
    {[mkdir |-> TRUE, create |-> TRUE, copy |-> TRUE],
     [mkdir |-> TRUE, create |-> TRUE, copy |-> FALSE],
     [mkdir |-> TRUE, create |-> FALSE, copy |-> FALSE],
     [mkdir |-> FALSE, create |-> FALSE, copy |-> FALSE]}

InitMedia == medias = <<>> /\ mediaNextID = 1

\* the post_id test: err != nil || postID <= 0, with 0 let through
PostIDRefused_ZeroAllowed(q) == Atoi(q).err \/ Lt64(Atoi(q).val, Z(0))

\* the post_id test: err != nil || postID <= 0
PostIDRefused(q) == Atoi(q).err \/ Le64(Atoi(q).val, Z(0))

MediaRefusal(req, status, message) ==
    /\ resp' = [op |-> "UploadMedia", arg |-> req, status |-> status, body |-> message]
    /\ UNCHANGED <<mediaVars, notMedia>>

UploadMedia(req, fs) ==
    IF ~req.form THEN MediaRefusal(req, StatusBadRequest, "Invalid form data")
    ELSE IF req.type # "image" /\ req.type # "video"
    THEN MediaRefusal(req, StatusBadRequest, "Invalid media type")
    ELSE IF PostIDRefused(req.post_id)
    THEN MediaRefusal(req, StatusNotFound, "Post not found")
    ELSE IF ~req.file THEN MediaRefusal(req, StatusBadRequest, "File is required")
    ELSE IF ~fs.create
    THEN /\ resp' = [op |-> "UploadMedia", arg |-> req, fs |-> fs,
                     status |-> StatusInternalServerError, body |-> "Cannot save file"]
         /\ UNCHANGED <<mediaVars, notMedia>>
    ELSE LET media == Media(mediaNextID, req.type, Atoi(req.post_id).val,
                            DstPath(mediaNextID, req.filename))
         IN  /\ medias' = Append(medias, media)
             /\ mediaNextID' = mediaNextID + 1
             /\ resp' = [op |-> "UploadMedia", arg |-> req, fs |-> fs,
                         status |-> StatusCreated,
                         body |-> [MediaID |-> media.ID, Message |-> "Media uploaded"]]
             /\ UNCHANGED notMedia

NextMedia ==
    /\ mediaNextID <= MaxMedia
    /\ \E req \in UploadRequests, fs \in FsOutcomes : UploadMedia(req, fs)

(***************************************************************************)
(* FollowsHandler, statement by statement                                  *)
(***************************************************************************)
\* FollowUser / UnfollowUser / the readers up to h.mu.Lock(): only locals
FollowsBegin(i) ==
    /\ inflight[i].h = "FollowsHandler"
    /\ inflight[i].pc = "start"
    /\ Goto(i, "lock", 0)
    /\ UNCHANGED <<stores, resp>>

\* the users named by the requests that are served concurrently
FlightTargets == {1, 2}

\* FollowUser: the "already following" loop and the append to following
FollowUser_Following(i) ==
    LET targetID == inflight[i].req
    IN  /\ At(i, "FollowUser", "locked")
        /\ IF IndexOfUser(MapGetSlice(following, currentID), targetID) # 0
           THEN /\ Answer(i, StatusBadRequest, "Already following")
                /\ UNCHANGED stores
           ELSE /\ following' = MapPut(following, currentID,
                       Append(MapGetSlice(following, currentID), Follow(targetID)))
                /\ Goto(i, "followers", 0)
                /\ UNCHANGED <<followers, besidesFollows, resp>>

\* FollowUser: the append to followers and the answer
FollowUser_Followers(i) ==
    LET targetID == inflight[i].req
    IN  /\ At(i, "FollowUser", "followers")
        /\ followers' = MapPut(followers, targetID,
               Append(MapGetSlice(followers, targetID), Follow(currentID)))
        /\ Answer(i, StatusCreated, "Followed")
        /\ UNCHANGED <<following, besidesFollows>>

\* UnfollowUser: the loop over following[1]
UnfollowUser_Following(i) ==
    LET targetID == inflight[i].req
        followingList == MapGetSlice(following, currentID)
        k == IndexOfUser(followingList, targetID)
    IN  /\ At(i, "UnfollowUser", "locked")
        /\ IF k = 0
           THEN /\ Answer(i, StatusForbidden, "Unauthorized")
                /\ UNCHANGED stores
           ELSE /\ following' = MapPut(following, currentID, RemoveAt(followingList, k))
                /\ Goto(i, "followers", 0)
                /\ UNCHANGED <<followers, besidesFollows, resp>>

\* UnfollowUser: the loop over followers[target] and the answer
UnfollowUser_Followers(i) ==
    LET targetID == inflight[i].req
        followerList == MapGetSlice(followers, targetID)
        k == IndexOfUser(followerList, currentID)
    IN  /\ At(i, "UnfollowUser", "followers")
        /\ followers' = IF k = 0 THEN followers
                        ELSE MapPut(followers, targetID, RemoveAt(followerList, k))
        /\ Answer(i, StatusOK, "Unfollowed")
        /\ UNCHANGED <<following, besidesFollows>>

\* GetFollowersByUserID inside the lock
GetFollowersByUserID_Locked(i) ==
    LET userID == inflight[i].req
    IN  /\ At(i, "GetFollowers", "locked")
        /\ IF userID \notin DOMAIN followers
           THEN Answer(i, StatusNotFound, <<>>)
           ELSE Answer(i, StatusOK, followers[userID])
        /\ UNCHANGED stores

\* GetFollowingByUserID inside the lock
GetFollowingByUserID_Locked(i) ==
    LET userID == inflight[i].req
    IN  /\ At(i, "GetFollowing", "locked")
        /\ IF userID \notin DOMAIN following
           THEN Answer(i, StatusNotFound, <<>>)
           ELSE Answer(i, StatusOK, following[userID])
        /\ UNCHANGED stores

FollowsOps == {"FollowUser", "UnfollowUser", "GetFollowers", "GetFollowing"}

\* GetMyFollowers / GetMyFollowing are the readers with user id 1
NextFollowsConcurrent ==
    \/ \E op \in FollowsOps, id \in FlightTargets : Serve("FollowsHandler", op, id)
    \/ \E i \in DOMAIN inflight : FollowsBegin(i)
    \/ \E i \in DOMAIN inflight : Lock(i)
    \/ \E i \in DOMAIN inflight : FollowUser_Following(i)
    \/ \E i \in DOMAIN inflight : FollowUser_Followers(i)
    \/ \E i \in DOMAIN inflight : UnfollowUser_Following(i)
    \/ \E i \in DOMAIN inflight : UnfollowUser_Followers(i)
    \/ \E i \in DOMAIN inflight : GetFollowersByUserID_Locked(i)
    \/ \E i \in DOMAIN inflight : GetFollowingByUserID_Locked(i)

(***************************************************************************)
(* PostsHandler.CreatePost and AuthHandler.Register, statement by          *)
(* statement.  Neither handler has a mutex.                                *)
(***************************************************************************)
\* the bodies of the CreatePost requests that are served concurrently
FlightPostBodies ==
    {BadBody} \cup
    [ok : {TRUE}, PostID : {0}, UserID : {0}, Content : {"a", "b"}, MediaIDs : {NilSlice}]

\* Register requests are accepted while fewer than MaxAccounts accounts
\* (two keys each) are stored
MaxAccounts == 1

\* the Register requests that are served concurrently
FlightRegisterRequests ==
    {[method |-> "PUT", body |-> BadAuthBody], [method |-> "POST", body |-> BadAuthBody]} \cup
    {[method |-> "POST", body |-> RegisterRequest(who[1], who[2], <<"p">>)] :
         who \in {p \in People : p[1] = ToLower(p[1])}}

\* the CreatePost goroutines that have not answered
Creating == {j \in DOMAIN inflight : inflight[j].op = "CreatePost"}

\* CreatePost: json.Decode and the test of the content
CreatePost_Decode(i) ==
    LET body == inflight[i].req
    IN  /\ At(i, "CreatePost", "start")
        /\ IF ~body.ok \/ body.Content = ""
           THEN Answer(i, StatusBadRequest, "Invalid data")
           ELSE Goto(i, "len", 0) /\ UNCHANGED resp
        /\ UNCHANGED stores

\* CreatePost: newID := len(h.Posts) + 1
CreatePost_Len(i) ==
    /\ At(i, "CreatePost", "len")
    /\ Goto(i, "assign", NewPostID(Posts))
    /\ UNCHANGED <<stores, resp>>

\* CreatePost: h.Posts[newID] = req and the answer
CreatePost_Assign(i, now) ==
    LET body == inflight[i].req
        newID == inflight[i].local
    IN  /\ At(i, "CreatePost", "assign")
        /\ IF PostsIsNil
           THEN \* assignment to entry in nil map: net/http recovers the panic
                /\ Answer(i, Aborted, "panic")
                /\ UNCHANGED stores
           ELSE /\ Posts' = MapPut(Posts, newID,
                        Post(newID, 1, body.Content, now, body.MediaIDs, FALSE))
                /\ Answer(i, StatusCreated, [post_id |-> newID, message |-> "Post created"])
                /\ UNCHANGED <<PostsIsNil, besidesPosts>>

\* Register: the method, json.Decode and the test of the three fields
Register_Decode(i) ==
    LET method == inflight[i].req.method
        body == inflight[i].req.body
    IN  /\ At(i, "Register", "start")
        /\ IF method # "POST"
           THEN Answer(i, StatusMethodNotAllowed, "Method Not Allowed")
           ELSE IF \/ ~body.ok
                   \/ body.Username = <<>> \/ body.Email = <<>> \/ body.Password = <<>>
           THEN Answer(i, StatusBadRequest, "Invalid data")
           ELSE Goto(i, "len", 0) /\ UNCHANGED resp
        /\ UNCHANGED stores

\* Register: newID := len(h.Users) + 1
Register_Len(i) ==
    /\ At(i, "Register", "len")
    /\ Goto(i, "username", Cardinality(DOMAIN AuthUsers) + 1)
    /\ UNCHANGED <<stores, resp>>

\* the record Register stores under both keys
RegisteredUser(i) ==
    LET body == inflight[i].req.body
    IN  User(inflight[i].local, body.Username, body.Email, body.Password, FALSE)

\* Register: h.Users[strings.ToLower(req.Username)] = user
Register_StoreUsername(i) ==
    /\ At(i, "Register", "username")
    /\ AuthUsers' = MapPut(AuthUsers, ToLower(inflight[i].req.body.Username),
                           RegisteredUser(i))
    /\ Goto(i, "email", inflight[i].local)
    /\ UNCHANGED <<besidesAuth, resp>>

\* Register: h.Users[strings.ToLower(req.Email)] = user and the answer
Register_StoreEmail(i) ==
    /\ At(i, "Register", "email")
    /\ AuthUsers' = MapPut(AuthUsers, ToLower(inflight[i].req.body.Email),
                           RegisteredUser(i))
    /\ Answer(i, StatusOK, [user_id |-> inflight[i].local, token |-> "fake-jwt-token"])
    /\ UNCHANGED besidesAuth

\* goroutine i is at an assignment to an entry of its handler's map
AtMapWrite(i) ==
    \/ At(i, "CreatePost", "assign") /\ ~PostsIsNil
    \/ At(i, "Register", "username")
    \/ At(i, "Register", "email")

\* two assignments to one map at the same time: the runtime may find the
\* map being written and end the process ("fatal error: concurrent map
\* writes"); no request in flight is answered
ConcurrentMapWrites(i) ==
    /\ AtMapWrite(i)
    /\ \E j \in DOMAIN inflight :
           j # i /\ AtMapWrite(j) /\ inflight[j].op = inflight[i].op
    /\ inflight' = [j \in DOMAIN inflight |-> [inflight[j] EXCEPT !.pc = "killed"]]
    /\ resp' = [op |-> inflight[i].op, arg |-> inflight[i].req, status |-> Aborted,
                body |-> "fatal error: concurrent map writes"]
    /\ UNCHANGED stores

NextUnlocked ==
    \/ /\ Cardinality(DOMAIN Posts) + Cardinality(Creating) < MaxPosts
       /\ \E b \in FlightPostBodies : Serve("PostsHandler", "CreatePost", b)
    \/ /\ Cardinality(DOMAIN AuthUsers) < 2 * MaxAccounts
       /\ \E r \in FlightRegisterRequests : Serve("AuthHandler", "Register", r)
    \/ \E i \in DOMAIN inflight : CreatePost_Decode(i)
    \/ \E i \in DOMAIN inflight : CreatePost_Len(i)
    \/ \E i \in DOMAIN inflight, now \in Times : CreatePost_Assign(i, now)
    \/ \E i \in DOMAIN inflight : Register_Decode(i)
    \/ \E i \in DOMAIN inflight : Register_Len(i)
    \/ \E i \in DOMAIN inflight : Register_StoreUsername(i)
    \/ \E i \in DOMAIN inflight : Register_StoreEmail(i)
    \/ \E i \in DOMAIN inflight : ConcurrentMapWrites(i)

(***************************************************************************)
(* CommentsHandler, statement by statement                                 *)
(***************************************************************************)
CommentRequest(path, body) == [path |-> path, body |-> body]

\* the comment requests that are served concurrently
FlightCreateComments ==
    {CommentRequest(QText, BadCommentBody)} \cup
    {CommentRequest(p, CommentBody("a")) : p \in {QText, QNum(Z(1))}}
FlightUpdateComments == {CommentRequest(QNum(Z(1)), CommentBody("b"))}
FlightDeleteComments == {CommentRequest(QNum(Z(1)), BadCommentBody)}

\* the CreateComment goroutines that have not answered
Commenting == {j \in DOMAIN inflight : inflight[j].op = "CreateComment"}

\* the statements before h.mu.Lock(): the path variable and, for
\* CreateComment and UpdateComment, json.Decode and the test of the content
CommentsBegin(i) ==
    LET body == inflight[i].req.body
    IN  /\ inflight[i].h = "CommentsHandler"
        /\ inflight[i].pc = "start"
        /\ IF inflight[i].op # "DeleteComment" /\ (~body.ok \/ body.Content = "")
           THEN Answer(i, StatusBadRequest, "Invalid content")
           ELSE Goto(i, "lock", 0) /\ UNCHANGED resp
        /\ UNCHANGED stores

\* CreateComment: comment := Comment{CommentID: h.nextID, ...}
CreateComment_Build(i) ==
    /\ At(i, "CreateComment", "locked")
    /\ Goto(i, "incr", nextID)
    /\ UNCHANGED <<stores, resp>>

\* CreateComment: h.nextID++
CreateComment_Incr(i) ==
    /\ At(i, "CreateComment", "incr")
    /\ nextID' = nextID + 1
    /\ Goto(i, "append", inflight[i].local)
    /\ UNCHANGED <<comments, besidesComments, resp>>

\* CreateComment: the append to the list of the post and the answer
CreateComment_Append(i) ==
    LET postID == PathInt(inflight[i].req.path)
        comment == NewComment(inflight[i].local, inflight[i].req.body.Content)
    IN  /\ At(i, "CreateComment", "append")
        /\ comments' = MapPut(comments, postID,
                              Append(MapGetSlice(comments, postID), comment))
        /\ Answer(i, StatusCreated,
                  [CommentID |-> comment.CommentID, Message |-> "Comment created"])
        /\ UNCHANGED <<nextID, besidesComments>>

\* UpdateComment inside the lock
UpdateComment_Locked(i) ==
    LET commentID == PathInt(inflight[i].req.path)
    IN  /\ At(i, "UpdateComment", "locked")
        /\ IF ~CommentFound(comments, commentID)
           THEN /\ Answer(i, StatusNotFound, "Comment not found")
                /\ UNCHANGED stores
           ELSE /\ comments' = UpdateIn(comments, commentID, inflight[i].req.body.Content)
                /\ Answer(i, StatusOK, "Comment updated")
                /\ UNCHANGED <<nextID, besidesComments>>

\* DeleteComment inside the lock
DeleteComment_Locked(i) ==
    LET commentID == PathInt(inflight[i].req.path)
    IN  /\ At(i, "DeleteComment", "locked")
        /\ IF ~CommentFound(comments, commentID)
           THEN /\ Answer(i, StatusNotFound, "Comment not found")
                /\ UNCHANGED stores
           ELSE /\ comments' = DeleteIn(comments, commentID)
                /\ Answer(i, StatusOK, "Comment soft deleted")
                /\ UNCHANGED <<nextID, besidesComments>>

NextCommentsConcurrent ==
    \/ /\ nextID + Cardinality(Commenting) <= MaxComments
       /\ \E r \in FlightCreateComments : Serve("CommentsHandler", "CreateComment", r)
    \/ \E r \in FlightUpdateComments : Serve("CommentsHandler", "UpdateComment", r)
    \/ \E r \in FlightDeleteComments : Serve("CommentsHandler", "DeleteComment", r)
    \/ \E i \in DOMAIN inflight : CommentsBegin(i)
    \/ \E i \in DOMAIN inflight : Lock(i)
    \/ \E i \in DOMAIN inflight : CreateComment_Build(i)
    \/ \E i \in DOMAIN inflight : CreateComment_Incr(i)
    \/ \E i \in DOMAIN inflight : CreateComment_Append(i)
    \/ \E i \in DOMAIN inflight : UpdateComment_Locked(i)
    \/ \E i \in DOMAIN inflight : DeleteComment_Locked(i)

NoResponse == [op |-> "none", arg |-> 0, status |-> Aborted, body |-> <<>>]

EmptyFollows == following = EmptyMap /\ followers = EmptyMap
EmptyPosts == Posts = EmptyMap /\ PostsIsNil = TRUE
EmptyProfile == Users = EmptyMap
EmptyNotifications == notifications = <<>>
EmptyFeeds == feeds = <<>>
EmptyReactions == reactions = EmptyMap /\ ReactionsIsNil = TRUE
EmptyComments == comments = EmptyMap /\ nextID = 1
EmptyAuth == AuthUsers = EmptyMap
EmptyMedia == medias = <<>> /\ mediaNextID = 1
NoneInFlight == inflight = <<>>

StartFollows ==
    /\ InitFollows
    /\ EmptyPosts
    /\ EmptyProfile
    /\ EmptyNotifications
    /\ EmptyFeeds
    /\ EmptyReactions
    /\ EmptyComments
    /\ EmptyAuth
    /\ EmptyMedia
    /\ NoneInFlight
    /\ resp = NoResponse

SpecFollows == StartFollows /\ [][NextFollows]_vars

StartPosts ==
    /\ EmptyFollows
    /\ InitPosts
    /\ EmptyProfile
    /\ EmptyNotifications
    /\ EmptyFeeds
    /\ EmptyReactions
    /\ EmptyComments
    /\ EmptyAuth
    /\ EmptyMedia
    /\ NoneInFlight
    /\ resp = NoResponse

SpecPosts == StartPosts /\ [][NextPosts]_vars

StartProfile ==
    /\ EmptyFollows
    /\ EmptyPosts
    /\ InitProfile
    /\ EmptyNotifications
    /\ EmptyFeeds
    /\ EmptyReactions
    /\ EmptyComments
    /\ EmptyAuth
    /\ EmptyMedia
    /\ NoneInFlight
    /\ resp = NoResponse

SpecProfile == StartProfile /\ [][NextProfile]_vars

StartNotifications ==
    /\ EmptyFollows
    /\ EmptyPosts
    /\ EmptyProfile
    /\ InitNotifications
    /\ EmptyFeeds
    /\ EmptyReactions
    /\ EmptyComments
    /\ EmptyAuth
    /\ EmptyMedia
    /\ NoneInFlight
    /\ resp = NoResponse

SpecNotifications == StartNotifications /\ [][NextNotifications]_vars

StartFeeds ==
    /\ EmptyFollows
    /\ EmptyPosts
    /\ EmptyProfile
    /\ EmptyNotifications
    /\ InitFeeds
    /\ EmptyReactions
    /\ EmptyComments
    /\ EmptyAuth
    /\ EmptyMedia
    /\ NoneInFlight
    /\ resp = NoResponse

SpecFeeds == StartFeeds /\ [][NextFeeds]_vars

StartReactions ==
    /\ EmptyFollows
    /\ EmptyPosts
    /\ EmptyProfile
    /\ EmptyNotifications
    /\ EmptyFeeds
    /\ InitReactions
    /\ EmptyComments
    /\ EmptyAuth
    /\ EmptyMedia
    /\ NoneInFlight
    /\ resp = NoResponse

SpecReactions == StartReactions /\ [][NextReactions]_vars

StartComments ==
    /\ EmptyFollows
    /\ EmptyPosts
    /\ EmptyProfile
    /\ EmptyNotifications
    /\ EmptyFeeds
    /\ EmptyReactions
    /\ InitComments
    /\ EmptyAuth
    /\ EmptyMedia
    /\ NoneInFlight
    /\ resp = NoResponse

SpecComments == StartComments /\ [][NextComments]_vars

StartAuth ==
    /\ EmptyFollows
    /\ EmptyPosts
    /\ EmptyProfile
    /\ EmptyNotifications
    /\ EmptyFeeds
    /\ EmptyReactions
    /\ EmptyComments
    /\ InitAuth
    /\ EmptyMedia
    /\ NoneInFlight
    /\ resp = NoResponse

SpecAuth == StartAuth /\ [][NextAuth]_vars

StartMedia ==
    /\ EmptyFollows
    /\ EmptyPosts
    /\ EmptyProfile
    /\ EmptyNotifications
    /\ EmptyFeeds
    /\ EmptyReactions
    /\ EmptyComments
    /\ EmptyAuth
    /\ InitMedia
    /\ NoneInFlight
    /\ resp = NoResponse

SpecMedia == StartMedia /\ [][NextMedia]_vars

SpecFollowsConcurrent == StartFollows /\ [][NextFollowsConcurrent]_vars

SpecCommentsConcurrent == StartComments /\ [][NextCommentsConcurrent]_vars

StartUnlocked ==
    /\ EmptyFollows
    /\ InitPosts
    /\ EmptyProfile
    /\ EmptyNotifications
    /\ EmptyFeeds
    /\ EmptyReactions
    /\ EmptyComments
    /\ InitAuth
    /\ EmptyMedia
    /\ NoneInFlight
    /\ resp = NoResponse

SpecUnlocked == StartUnlocked /\ [][NextUnlocked]_vars

(***************************************************************************)
(* Properties of the follow graph                                          *)
(***************************************************************************)
\* target t is in user 1's following list
InFollowing(t) ==
    \E i \in DOMAIN MapGetSlice(following, currentID) :
        MapGetSlice(following, currentID)[i].UserID = t

\* user 1 is in t's followers list
InFollowers(t) ==
    \E i \in DOMAIN MapGetSlice(followers, t) :
        MapGetSlice(followers, t)[i].UserID = currentID

\* C1: follow symmetry.  In every reachable state T is in user 1's following
\* list iff user 1 is in T's followers list; right after a successful
\* FollowUser(T) both entries are present, right after a successful
\* UnfollowUser(T) neither is.
C1_FollowSymmetry ==
    /\ \A t \in TargetIds \cup DOMAIN followers : InFollowing(t) <=> InFollowers(t)
    /\ (resp.op = "FollowUser" /\ resp.status = StatusCreated)
          => (InFollowing(resp.arg) /\ InFollowers(resp.arg))
    /\ (resp.op = "UnfollowUser" /\ resp.status = StatusOK)
          => (~InFollowing(resp.arg) /\ ~InFollowers(resp.arg))

\* an unfollow has just succeeded while another edge is still in both maps
C1_Witness ==
    /\ resp.op = "UnfollowUser" /\ resp.status = StatusOK
    /\ \E t \in TargetIds : InFollowing(t) /\ InFollowers(t)

NoDuplicateFollowing ==
    \A i, j \in DOMAIN MapGetSlice(following, currentID) :
        i # j => MapGetSlice(following, currentID)[i].UserID
                    # MapGetSlice(following, currentID)[j].UserID

\* C2: FollowUser(T) while user 1 already follows T answers 400 and leaves
\* the following map and the followers map as they were, so no target is
\* ever twice in a following list.
C2_FollowTwiceBadRequest ==
    /\ [][\A t \in TargetIds :
            (InFollowing(t) /\ resp'.op = "FollowUser" /\ resp'.arg = t)
               => (resp'.status = StatusBadRequest /\ UNCHANGED followsVars)]_vars
    /\ []NoDuplicateFollowing

\* a FollowUser of a target that is already followed has been answered
C2_Witness ==
    /\ resp.op = "FollowUser" /\ resp.status = StatusBadRequest
    /\ InFollowing(resp.arg)

\* C3: UnfollowUser(T) while user 1 does not follow T answers 403 and leaves
\* both maps as they were; a second UnfollowUser(T) right after a successful
\* one answers 403.
C3_UnfollowMissingForbidden ==
    [][/\ \A t \in TargetIds :
            (~InFollowing(t) /\ resp'.op = "UnfollowUser" /\ resp'.arg = t)
               => (resp'.status = StatusForbidden /\ UNCHANGED followsVars)
       /\ (resp.op = "UnfollowUser" /\ resp.status = StatusOK
             /\ resp'.op = "UnfollowUser" /\ resp'.arg = resp.arg)
               => resp'.status = StatusForbidden]_vars

\* an UnfollowUser of a target that was followed and unfollowed before has
\* been refused
C3_Witness ==
    /\ resp.op = "UnfollowUser" /\ resp.status = StatusForbidden
    /\ resp.arg \in DOMAIN followers
    /\ ~InFollowing(resp.arg)

(***************************************************************************)
(* Properties of the post store                                            *)
(***************************************************************************)
DeletedIds == {k \in DOMAIN Posts : Posts[k].IsDeleted}

IsPostList == resp.op \in {"GetUserPosts", "GetOwnPosts"}

\* a soft-deleted post is not served by GetPost nor listed
DeletedPostsHidden ==
    \A id \in DeletedIds :
        /\ GetPostResp(Posts, id).status = StatusNotFound
        /\ (resp.op = "GetPost" /\ resp.arg = id) => resp.status = StatusNotFound
        /\ IsPostList => \A i \in DOMAIN resp.body.page : resp.body.page[i].post_id # id

\* a soft-deleted post stays in the store, deleted and as it was
DeletedPostsKept ==
    \A id \in DeletedIds : id \in DOMAIN Posts' /\ Posts'[id] = Posts[id]

\* C4: soft delete of posts.  Once a post is deleted, in every later state
\* GetPost(id) answers NotFound and id is in no result of GetUserPosts or
\* GetOwnPosts; the record stays in the store with its flag set and is never
\* overwritten, whatever CreatePost/UpdatePost/DeletePost calls follow.
C4_SoftDelete == []DeletedPostsHidden /\ [][DeletedPostsKept]_vars

\* the step parks a request at json.Decode and answers nothing
Parks == Len(inflight') > Len(inflight)

\* C5: post ownership.  UpdatePost or DeletePost on an existing, non-deleted
\* post of another author answers 403 and leaves the store unchanged; on a
\* post of user 1 DeletePost succeeds and GetPost then answers NotFound, and
\* UpdatePost with a decodable body succeeds and GetPost then shows the new
\* content and media ids.
C5_Ownership ==
    [][~Parks =>
       \A id \in DOMAIN Posts :
         (~Posts[id].IsDeleted /\ resp'.arg = id) =>
            /\ (Posts[id].UserID # 1 /\ resp'.op \in {"UpdatePost", "DeletePost"})
                  => (resp'.status = StatusForbidden /\ UNCHANGED postsVars)
            /\ (Posts[id].UserID = 1 /\ resp'.op = "DeletePost")
                  => /\ resp'.status = StatusOK
                     /\ GetPostResp(Posts', id).status = StatusNotFound
            /\ (Posts[id].UserID = 1 /\ resp'.op = "UpdatePost" /\ resp'.req.ok)
                  => /\ resp'.status = StatusOK
                     /\ GetPostResp(Posts', id).status = StatusOK
                     /\ resp'.req.Content # ""
                          => GetPostResp(Posts', id).body.content = resp'.req.Content
                     /\ ~resp'.req.MediaIDs.isNil
                          => GetPostResp(Posts', id).body.media_ids =
                                 resp'.req.MediaIDs.elems]_vars

\* an UpdatePost of another author's live post has been refused, in a store
\* where user 1 has created a post and deleted it
C5_Witness ==
    /\ resp.op = "UpdatePost" /\ resp.status = StatusForbidden
    /\ resp.arg \in DOMAIN Posts
    /\ ~Posts[resp.arg].IsDeleted /\ Posts[resp.arg].UserID # 1
    /\ \E k \in DOMAIN Posts :
          Posts[k].UserID = 1 /\ Posts[k].CreatedAt \in Times /\ Posts[k].IsDeleted

\* the notification ids present in the list
NotificationIds == {notifications[i].ID : i \in DOMAIN notifications}

\* C6: NotFound before Forbidden.  UpdatePost or DeletePost on a post id that
\* is not in the store, or is soft-deleted, answers 404 and not 403; MarkAsRead
\* on a notification id that is not in the list answers 404.
C6_NotFoundBeforeForbidden ==
    [][/\ (/\ ~Parks
           /\ resp'.op \in {"UpdatePost", "DeletePost"}
           /\ (resp'.arg \notin DOMAIN Posts \/ Posts[resp'.arg].IsDeleted))
             => resp'.status = StatusNotFound
       /\ (/\ resp'.op = "MarkAsRead"
           /\ resp'.arg.kind = "num"
           /\ \A id \in NotificationIds : Z(id) # resp'.arg.v)
             => resp'.status = StatusNotFound]_vars

(***************************************************************************)
(* Properties of the paginated lists                                       *)
(***************************************************************************)
IsPagedList == resp.op \in {"GetUserPosts", "GetOwnPosts", "SearchUsers", "GetNotifications"}

\* N: the size of the filtered collection the answered list request ran over
ListedCount ==
    CASE resp.op = "GetUserPosts"     -> Cardinality(UserPostKeys(Posts, resp.arg))
      [] resp.op = "GetOwnPosts"      -> Cardinality(UserPostKeys(Posts, 1))
      [] resp.op = "SearchUsers"      -> Cardinality(SearchKeys(Users, resp.arg))
      [] resp.op = "GetNotifications" -> Len(notifications)

\* the parameter is a number >= 0
NonNegative(q) == q.kind = "num" /\ Le64(Z(0), q.v)

\* the parameter is a number < 0
Negative(q) == q.kind = "num" /\ Lt64(q.v, Z(0))

\* clamp(limit, 0, max(0, n - offset)) for offset, limit >= 0
ExpectedPageLen(n, offset, limit) ==
    LET rest == IF offset.b = "z" /\ offset.d <= n THEN n - offset.d ELSE 0
    IN  IF limit.b = "z" /\ limit.d <= rest THEN limit.d ELSE rest

\* C7: pagination of GetUserPosts, GetOwnPosts and SearchUsers.  For a filtered
\* collection of any size N, N = 0 included, and any offset, limit >= 0 the
\* request is answered with a page of clamp(limit, 0, max(0, N - offset))
\* items and total N.
C7_PostsAndUsersPagination ==
    (/\ resp.op \in {"GetUserPosts", "GetOwnPosts", "SearchUsers"}
     /\ NonNegative(resp.offset) /\ NonNegative(resp.limit))
       => /\ resp.status = StatusOK
          /\ Len(resp.body.page) = ExpectedPageLen(ListedCount, resp.offset.v, resp.limit.v)
          /\ resp.body.total = ListedCount

\* C8: pagination of GetNotifications.  For a list of N notifications and any
\* offset, limit >= 0 the handler completes with a page of
\* clamp(limit, 0, max(0, N - offset)) items and total N; an offset above N
\* gives an empty page, not a failure.
C8_NotificationsPagination ==
    (/\ resp.op = "GetNotifications"
     /\ NonNegative(resp.offset) /\ NonNegative(resp.limit))
       => /\ resp.status = StatusOK
          /\ Len(resp.body.page) = ExpectedPageLen(ListedCount, resp.offset.v, resp.limit.v)
          /\ resp.body.total = ListedCount

\* the parameter is missing or is not a number
NotANumber(q) == q.kind \in {"absent", "text"}

\* C9: default limit.  In every paginated list a missing or non-numeric limit
\* means limit 10: at offset 0 a collection of N items is answered with
\* min(N, 10) items.
C9_DefaultLimit ==
    (/\ IsPagedList
     /\ NotANumber(resp.limit)
     /\ (resp.offset = QAbsent \/ resp.offset = QNum(Z(0))))
       => /\ resp.status = StatusOK
          /\ Len(resp.body.page) = ExpectedPageLen(ListedCount, Z(0), Z(DefaultLimit))

\* the value a parameter stands for when a negative number counts as absent
Tolerant(q, default) == IF NonNegative(q) THEN q.v ELSE default

\* C10: tolerant parsing.  A negative offset or limit is treated as absent
\* (offset 0, limit 10): the request is answered, never aborted or refused,
\* with the page of the request without that parameter.
C10_TolerantParsing ==
    (/\ IsPagedList
     /\ Negative(resp.offset) \/ Negative(resp.limit)
     /\ resp.offset.kind = "num" /\ resp.limit.kind = "num")
       => /\ resp.status = StatusOK
          /\ Len(resp.body.page) =
                ExpectedPageLen(ListedCount, Tolerant(resp.offset, Z(0)),
                                Tolerant(resp.limit, Z(DefaultLimit)))

(***************************************************************************)
(* Feed                                                                    *)
(***************************************************************************)
IsFeed == resp.op = "GetNewsFeed"

\* creation time of a feed item, Unix seconds
CreationTime(item) == item.CreatedAt.sec

\* the request carries a cursor the contract defines: absent or a timestamp
HasCursor == resp.arg.kind = "absent" \/ resp.arg.kind = "num"

\* the cursor of the request answered: before, or now when before is absent
Cursor == IF resp.arg.kind = "absent" THEN resp.now ELSE resp.arg.v.d

\* C11: GetNewsFeed returns only items whose creation time is strictly
\* before the cursor (before, or the current time when before is absent),
\* and next_cursor is the creation time in Unix seconds of the last item
\* returned, empty when nothing is returned.
C11_FeedCursor ==
    IsFeed /\ HasCursor =>
        /\ \A i \in 1..Len(resp.body) : CreationTime(resp.body[i]) < Cursor
        /\ resp.next_cursor =
               IF resp.body = <<>> THEN QAbsent
               ELSE QNum(Z(CreationTime(resp.body[Len(resp.body)])))

\* the limit in effect: the supplied limit when positive, else the default
LimitInEffect(q) ==
    IF q.kind = "num" /\ Lt64(Z(0), q.v) THEN q.v ELSE Z(FeedDefaultLimit)

\* C12: whatever limit is supplied (0 and negative values included), the
\* number of items GetNewsFeed returns never exceeds the limit in effect:
\* the supplied limit when it is positive, otherwise the default 10.
C12_FeedLimit ==
    IsFeed => Le64(Z(Len(resp.body)), LimitInEffect(resp.limit))

\* a limit of 0 was supplied against a feed of several items, all of which
\* pass the filter, and one item came back
C12_Witness ==
    /\ IsFeed
    /\ resp.limit = QNum(Z(0))
    /\ resp.arg.kind = "absent"
    /\ Len(feeds) >= 2
    /\ Len(resp.body) = 1

\* the stored items that pass the cursor filter
PassingIndexes == {i \in 1..Len(feeds) : CreationTime(feeds[i]) < Cursor}

Min(a, b) == IF a <= b THEN a ELSE b

\* the request names its cursor and leaves the limit out or positive
PlainFeedRequest ==
    /\ IsFeed
    /\ resp.arg.kind = "num"
    /\ resp.limit.kind = "absent" \/ (resp.limit.kind = "num" /\ Lt64(Z(0), resp.limit.v))

\* C13: whatever the storage order, the items GetNewsFeed returns are in
\* descending order of creation time and are the limit most recent items
\* that pass the cursor filter (stated for requests that give before as a
\* timestamp and a limit that is absent or positive).
C13_FeedOrdering ==
    PlainFeedRequest =>
        LET body == resp.body
            limit == LimitInEffect(resp.limit)
            want == IF limit.b = "z"
                    THEN Min(limit.d, Cardinality(PassingIndexes))
                    ELSE Cardinality(PassingIndexes)
        IN  /\ \A i, j \in 1..Len(body) :
                   i < j => CreationTime(body[i]) >= CreationTime(body[j])
            /\ Len(body) = want
            /\ \A i \in 1..Len(body) : \E k \in PassingIndexes : feeds[k] = body[i]
            /\ \A k \in PassingIndexes :
                   \/ \E i \in 1..Len(body) : body[i] = feeds[k]
                   \/ \A i \in 1..Len(body) :
                          CreationTime(feeds[k]) <= CreationTime(body[i])

(***************************************************************************)
(* Reactions                                                               *)
(***************************************************************************)
\* the reaction type stored for (postID, userID), <<>> when there is none
StoredReaction(store, postID, userID) ==
    IF postID \in DOMAIN store /\ userID \in DOMAIN store[postID]
    THEN store[postID][userID] ELSE <<>>

ReactionUsers == {"user1", "user2"}

\* how many entries of the list are the given user
Occurrences(users, userID) == Cardinality({i \in DOMAIN users : users[i] = userID})

\* a successful ReactToPost leaves its type as the stored reaction of
\* (post, user1) and touches no other pair; until the next one the store
\* keeps it (GetReactions and a refused ReactToPost change nothing)
LastWriteStored ==
    /\ resp'.op = "ReactToPost" /\ resp'.status = StatusCreated =>
           \A p \in ReactionPostIDs, u \in ReactionUsers :
               StoredReaction(reactions', p, u) =
                   IF p = resp'.arg /\ u = reactionUserID
                   THEN resp'.req.ReactionType
                   ELSE StoredReaction(reactions, p, u)
    /\ \/ resp'.op = "GetReactions"
       \/ resp'.op = "ReactToPost" /\ resp'.status # StatusCreated
       => reactions' = reactions

\* GetReactions lists a user who reacted once, and counts the users
ReactionCountedOnce ==
    resp.op = "GetReactions" /\ resp.status = StatusOK =>
        /\ \A u \in ReactionUsers :
               Occurrences(resp.body.Users, u) =
                   IF StoredReaction(reactions, resp.arg, u) # <<>> THEN 1 ELSE 0
        /\ resp.body.Count = Len(resp.body.Users)
        /\ resp.body.Total = resp.body.Count

\* C14: last write wins.  After ReactToPost calls on a post the store holds
\* one reaction for (post, user1), of the type of the most recent
\* successful call, and GetReactions counts user1 once however many times
\* they reacted.
C14_LastWriteWins == []ReactionCountedOnce /\ [][LastWriteStored]_vars

\* ReactToPost has just stored a type for user1 on a post that also
\* carries the reaction of user2, and user1 has reacted to the other post
C14_Witness ==
    /\ resp.op = "ReactToPost"
    /\ resp.status = StatusCreated
    /\ StoredReaction(reactions, resp.arg, reactionUserID) = <<"h">>
    /\ StoredReaction(reactions, resp.arg, "user2") # <<>>
    /\ \A p \in ReactionPostIDs : StoredReaction(reactions, p, reactionUserID) # <<>>

\* C15: RemoveReaction on a post where user1 has no stored reaction fails
\* with NotFound and leaves the store unchanged; where user1 has one it
\* succeeds and removes exactly the reaction of user1 on that post.
C15_RemoveReaction ==
    [][resp'.op = "RemoveReaction" =>
          IF StoredReaction(reactions, resp'.arg, reactionUserID) = <<>>
          THEN /\ resp'.status = StatusNotFound
               /\ reactions' = reactions
          ELSE /\ resp'.status = StatusOK
               /\ \A p \in ReactionPostIDs, u \in ReactionUsers :
                      StoredReaction(reactions', p, u) =
                          IF p = resp'.arg /\ u = reactionUserID
                          THEN <<>>
                          ELSE StoredReaction(reactions, p, u)]_vars

\* the reaction of user1 was removed from a post that keeps the reaction of
\* user2, user1's reaction to the other post staying
C15_Witness ==
    /\ resp.op = "RemoveReaction"
    /\ resp.status = StatusOK
    /\ StoredReaction(reactions, resp.arg, reactionUserID) = <<>>
    /\ StoredReaction(reactions, resp.arg, "user2") # <<>>
    /\ \E p \in ReactionPostIDs : StoredReaction(reactions, p, reactionUserID) # <<>>

(***************************************************************************)
(* Profiles                                                                *)
(***************************************************************************)
\* the last request was GetProfile of a profile the store holds
GotExistingProfile ==
    /\ resp.op = "GetProfile"
    /\ resp.arg.kind = "num"
    /\ resp.arg.v.b = "z"
    /\ resp.arg.v.d \in DOMAIN Users

\* C16: GetProfile of an existing private profile succeeds for the owner
\* (the current user, id 1) and fails with Forbidden for every other id;
\* GetProfile of an existing profile that is not private always succeeds.
C16_PrivateProfile ==
    GotExistingProfile =>
        LET id == resp.arg.v.d
        IN  IF Users[id].IsPrivate /\ id # currentID
            THEN resp.status = StatusForbidden
            ELSE resp.status = StatusOK /\ resp.body = Users[id]

(***************************************************************************)
(* Comments                                                                *)
(***************************************************************************)
\* C17: once DeleteComment(id) has succeeded, GetComments for the post of
\* the comment neither lists the comment nor counts it in total.
C17_DeletedCommentsHidden ==
    resp.op = "GetComments" /\ resp.status = StatusOK =>
        LET stored == comments[PathInt(resp.arg)]
            live == {i \in 1..Len(stored) : ~stored[i].IsDeleted}
        IN  /\ \A i \in 1..Len(resp.body.Comments) : ~resp.body.Comments[i].IsDeleted
            /\ resp.body.Total = Cardinality(live)

\* an UpdateComment or DeleteComment step keeps the posts and the length of
\* every list, and changes only comments authored by the current user
OnlyOwnCommentsChange ==
    resp'.op \in {"UpdateComment", "DeleteComment"} =>
        /\ DOMAIN comments' = DOMAIN comments
        /\ \A p \in DOMAIN comments :
               /\ Len(comments'[p]) = Len(comments[p])
               /\ \A i \in 1..Len(comments[p]) :
                      comments'[p][i] # comments[p][i] =>
                          comments[p][i].UserID = currentID

\* C18: in every state reachable through CreateComment, UpdateComment and
\* DeleteComment, a call of UpdateComment or DeleteComment changes a comment
\* only if its author is the current user (1): no call modifies a comment
\* authored by another user.
C18_CommentOwnership == [][OnlyOwnCommentsChange]_vars

\* UpdateComment has rewritten one comment and DeleteComment has deleted
\* another, both by the current user
C18_Witness ==
    /\ resp.op \in {"UpdateComment", "DeleteComment"}
    /\ resp.status = StatusOK
    /\ \E p \in DOMAIN comments : \E i \in 1..Len(comments[p]) :
           /\ comments[p][i].UpdatedAt = Updated1
           /\ comments[p][i].UserID = currentID
    /\ \E p \in DOMAIN comments : \E i \in 1..Len(comments[p]) :
           /\ comments[p][i].IsDeleted
           /\ comments[p][i].UserID = currentID

(***************************************************************************)
(* Accounts                                                                *)
(***************************************************************************)
\* every stored record is found under its user name and under its e-mail
\* address, with the same password and the same deleted flag
IndexConsistent ==
    \A k \in DOMAIN AuthUsers :
        LET byName == ToLower(AuthUsers[k].Username)
            byEmail == ToLower(AuthUsers[k].Email)
        IN  /\ byName \in DOMAIN AuthUsers
            /\ byEmail \in DOMAIN AuthUsers
            /\ AuthUsers[byName].Password = AuthUsers[byEmail].Password
            /\ AuthUsers[byName].IsDeleted = AuthUsers[byEmail].IsDeleted

\* the keys of the current account: its user name and its e-mail address
CurrentKeys(store) == {alice, ToLower(store[alice].Email)}

\* a Login that follows a successful ChangePassword and gives the old
\* password under either key of the account is refused
OldPasswordRefused ==
    /\ resp.op = "ChangePassword" /\ resp.status = StatusOK
    /\ resp.req.OldPassword # resp.req.NewPassword
    /\ resp'.op = "Login" /\ resp'.method = "POST" /\ resp'.req.ok
    /\ ToLower(resp'.req.Login) \in CurrentKeys(AuthUsers)
    /\ resp'.req.Password = resp.req.OldPassword
    => resp'.status = StatusUnauthorized

\* C19: in every state reached through Register, ChangePassword and
\* DeleteAccount the record under an account's user name and the record
\* under its e-mail address are the same (same password, same deleted
\* flag); after a successful ChangePassword a Login with the old password
\* fails under the user name and under the e-mail address.
C19_IndexConsistency == []IndexConsistent /\ [][OldPasswordRefused]_vars

\* C20: once DeleteAccount has succeeded for the current account, every
\* later Login for that account is refused with Unauthorized, under its
\* user name and under its e-mail address, the correct password included.
C20_DeletedCannotLogin ==
    /\ resp.op = "Login" /\ resp.method = "POST" /\ resp.req.ok
    /\ alice \in DOMAIN AuthUsers
    /\ AuthUsers[alice].IsDeleted
    /\ ToLower(resp.req.Login) \in CurrentKeys(AuthUsers)
    => resp.status = StatusUnauthorized

(***************************************************************************)
(* Media                                                                   *)
(***************************************************************************)
\* the request answered was an upload whose form parsed
ParsedUpload(r) == r.op = "UploadMedia" /\ r.arg.form

TypeInvalid(req) == req.type \notin {"image", "video"}
\* the post id is not the text of a positive int (the ints close to the
\* largest int are positive)
PostIDInvalid(req) ==
    ~(/\ req.post_id.kind = "num"
      /\ \/ req.post_id.v.b = "z" /\ req.post_id.v.d > 0
         \/ req.post_id.v.b = "hi")

\* a failed upload leaves the media list and the next media id unchanged
FailedUploadKeeps ==
    resp'.op = "UploadMedia" /\ resp'.status # StatusCreated =>
        medias' = medias /\ mediaNextID' = mediaNextID

\* C21 as stated: an invalid type gives BadRequest, a missing file gives
\* BadRequest, a post id that is not a positive number gives NotFound, and
\* every failed upload leaves the media list and the next media id unchanged.
C21_UploadValidation ==
    [][/\ ParsedUpload(resp') =>
              /\ TypeInvalid(resp'.arg) => resp'.status = StatusBadRequest
              /\ ~resp'.arg.file => resp'.status = StatusBadRequest
              /\ PostIDInvalid(resp'.arg) => resp'.status = StatusNotFound
       /\ FailedUploadKeeps]_vars

\* C21 amended: the tests run in the order type, post id, file.  An invalid
\* type gives BadRequest; with a valid type, a post id that is not a
\* positive number gives NotFound; with both valid, a missing file gives
\* BadRequest; every failed upload leaves the media list and the next media
\* id unchanged.
C21_UploadValidationInOrder ==
    [][/\ ParsedUpload(resp') =>
              LET req == resp'.arg
              IN  /\ TypeInvalid(req) => resp'.status = StatusBadRequest
                  /\ ~TypeInvalid(req) /\ PostIDInvalid(req) =>
                         resp'.status = StatusNotFound
                  /\ ~TypeInvalid(req) /\ ~PostIDInvalid(req) /\ ~req.file =>
                         resp'.status = StatusBadRequest
       /\ FailedUploadKeeps]_vars

\* an upload of a valid type with post id 0 and no file was refused with
\* NotFound, the list holding an earlier upload
C21_Witness ==
    /\ ParsedUpload(resp)
    /\ resp.arg.type = "image"
    /\ resp.arg.post_id = QNum(Z(0))
    /\ ~resp.arg.file
    /\ resp.status = StatusNotFound
    /\ Len(medias) = 1
    /\ mediaNextID = 2

\* media ids are 1, 2, ... in the order of the list, the next one unused
MediaIdsIncrease ==
    /\ \A i \in 1..Len(medias) : medias[i].ID = i
    /\ mediaNextID = Len(medias) + 1

\* C22: when a file system step of the save fails (making the directory,
\* creating the file, copying the bytes) the request ends with 500 and no
\* Media entry is recorded; an entry exists only for a payload fully
\* persisted; successful uploads get increasing, never reused ids.
C22_StorageFailure ==
    /\ []MediaIdsIncrease
    /\ [][resp'.op = "UploadMedia" /\ "fs" \in DOMAIN resp' =>
              LET fs == resp'.fs
                  saved == fs.mkdir /\ fs.create /\ fs.copy
              IN  /\ ~saved => resp'.status = StatusInternalServerError
                                /\ medias' = medias
                  /\ medias' # medias => saved]_vars

(***************************************************************************)
(* Properties of concurrent requests                                       *)
(***************************************************************************)
\* in this step a goroutine running op writes its response
Answers(op) == Len(inflight') < Len(inflight) /\ resp'.op = op

\* C23: exclusive access for every handler.  Whatever the interleaving of
\* concurrent CreatePost requests, and of concurrent Register requests, a
\* request that succeeds receives an id that no earlier request holds and
\* leaves every record stored before it in place.
C23_ExclusiveAccess ==
    [][/\ (Answers("CreatePost") /\ resp'.status = StatusCreated) =>
            /\ resp'.body.post_id \notin DOMAIN Posts
            /\ \A k \in DOMAIN Posts : Posts'[k] = Posts[k]
       /\ (Answers("Register") /\ resp'.status = StatusOK) =>
            \A k \in DOMAIN AuthUsers :
                \/ AuthUsers[k].ID # resp'.body.user_id
                \/ ToLower(AuthUsers[k].Username) = ToLower(resp'.arg.body.Username)
      ]_vars

\* every follow edge is in both maps or in neither
EdgesMirrored ==
    \A t \in TargetIds \cup DOMAIN followers : InFollowing(t) <=> InFollowers(t)

\* goroutine i is a reader that holds the lock and is about to read its map
ReaderAtRead(i) ==
    /\ inflight[i].op \in {"GetFollowers", "GetFollowing"}
    /\ inflight[i].pc = "locked"

\* C24: follow atomicity under concurrency.  Whatever the interleaving of
\* FollowUser / UnfollowUser with the readers, the state a reader reads has
\* every follow edge in both maps or in neither.
C24_FollowAtomicity ==
    \A i \in DOMAIN inflight : ReaderAtRead(i) => EdgesMirrored

\* a reader waits for the mutex while a FollowUser is between its two appends
C24_Witness ==
    \E i, j \in DOMAIN inflight :
        /\ At(i, "FollowUser", "followers")
        /\ inflight[j].op \in {"GetFollowers", "GetFollowing"}
        /\ inflight[j].pc = "lock"
        /\ ~EdgesMirrored

(***************************************************************************)
(* The handlers as main constructs them                                    *)
(***************************************************************************)
\* C25: every request is answered from the application's initial state.
\* With the stores as main leaves them, a CreatePost and a ReactToPost whose
\* body passes validation are answered Created (never aborted), and the post
\* just created is the one GetPost returns for the returned id.
C25_AnsweredFromInitialState ==
    /\ resp.op \in {"CreatePost", "ReactToPost"}
          => resp.status \in {StatusCreated, StatusBadRequest}
    /\ (resp.op = "CreatePost" /\ resp.status = StatusCreated)
          => GetPostResp(Posts, resp.arg).status = StatusOK

(***************************************************************************)
(* Frame conditions                                                        *)
(***************************************************************************)
\* the fields of a post that UpdatePost never writes
PostIdentity(p) == <<p.PostID, p.UserID, p.CreatedAt, p.IsDeleted>>

\* C26: UpdatePost frame.  A successful UpdatePost keeps the keys of the
\* store, every other post, and the addressed post's id, author, creation
\* time and deleted flag; an empty content keeps the stored content and a
\* missing media_ids keeps the stored media ids; a refused UpdatePost
\* changes nothing.
C26_UpdatePostFrame ==
    [][(~Parks /\ resp'.op = "UpdatePost") =>
         IF resp'.status = StatusOK
         THEN /\ DOMAIN Posts' = DOMAIN Posts
              /\ resp'.arg \in DOMAIN Posts
              /\ \A k \in DOMAIN Posts \ {resp'.arg} : Posts'[k] = Posts[k]
              /\ PostIdentity(Posts'[resp'.arg]) = PostIdentity(Posts[resp'.arg])
              /\ Posts'[resp'.arg].Content =
                    IF resp'.req.Content = "" THEN Posts[resp'.arg].Content
                    ELSE resp'.req.Content
              /\ Posts'[resp'.arg].MediaIDs =
                    IF resp'.req.MediaIDs.isNil THEN Posts[resp'.arg].MediaIDs
                    ELSE resp'.req.MediaIDs
         ELSE Posts' = Posts
      ]_vars

\* C27: MarkAsRead frame and monotonicity.  A successful MarkAsRead sets the
\* read flag of the notification with the given id and nothing else; a
\* refused one (400, 403, 404) leaves the list as it was; and no step of the
\* handler clears a read flag.
C27_MarkAsReadFrame ==
    [][/\ resp'.op = "MarkAsRead" =>
            IF resp'.status = StatusOK
            THEN \E i \in DOMAIN notifications :
                    /\ Z(notifications[i].ID) = Atoi(resp'.arg).val
                    /\ \A j \in DOMAIN notifications :
                           Z(notifications[j].ID) = Atoi(resp'.arg).val => j = i
                    /\ notifications' = [notifications EXCEPT ![i].Read = TRUE]
            ELSE /\ resp'.status \in {StatusBadRequest, StatusForbidden, StatusNotFound}
                 /\ notifications' = notifications
       /\ \A i \in DOMAIN notifications :
              notifications[i].Read =>
                  (i \in DOMAIN notifications' /\ notifications'[i].Read)
      ]_vars

\* one of two notifications has been marked as read, the other is unread
C27_Witness ==
    /\ resp.op = "MarkAsRead"
    /\ resp.status = StatusOK
    /\ Len(notifications) = 2
    /\ \E i, j \in DOMAIN notifications :
           /\ Z(notifications[i].ID) = Atoi(resp.arg).val
           /\ notifications[i].Read
           /\ ~notifications[j].Read

\* new is old without its element at one position, the rest in the same
\* order, and the element left out has the given user id
RemovedInOrder(old, new, id) ==
    /\ Len(new) = Len(old) - 1
    /\ \E i \in DOMAIN old :
           /\ old[i].UserID = id
           /\ \A j \in DOMAIN new : new[j] = IF j < i THEN old[j] ELSE old[j + 1]

\* C28: unfollow preserves order.  A successful UnfollowUser(T) takes exactly
\* T out of user 1's following list and exactly user 1 out of T's followers
\* list, the other elements of both lists keep their order, and the lists of
\* every other user are unchanged.
C28_UnfollowPreservesOrder ==
    [][(resp'.op = "UnfollowUser" /\ resp'.status = StatusOK) =>
          /\ DOMAIN following' = DOMAIN following
          /\ DOMAIN followers' = DOMAIN followers
          /\ RemovedInOrder(MapGetSlice(following, currentID),
                            following'[currentID], resp'.arg)
          /\ RemovedInOrder(MapGetSlice(followers, resp'.arg),
                            followers'[resp'.arg], currentID)
          /\ \A u \in DOMAIN following \ {currentID} : following'[u] = following[u]
          /\ \A u \in DOMAIN followers \ {resp'.arg} : followers'[u] = followers[u]
      ]_vars

\* an unfollow has left at least two users in user 1's following list: the
\* user unfollowed has no follower left, a user with a larger id still has
\* user 1 as a follower
C28_Witness ==
    /\ resp.op = "UnfollowUser"
    /\ resp.status = StatusOK
    /\ Len(MapGetSlice(following, currentID)) >= 2
    /\ resp.arg \in DOMAIN followers
    /\ followers[resp.arg] = <<>>
    /\ \E u \in DOMAIN followers : u > resp.arg /\ followers[u] # <<>>

\* the places of the store: post p, position i of its list
CommentPlaces(store) == UNION {{<<p, i>> : i \in DOMAIN store[p]} : p \in DOMAIN store}

\* no two comments, of one post or of two, have the same id, and every id has
\* been handed out
CommentIdsUnique ==
    /\ \A x, y \in CommentPlaces(comments) :
           x # y => comments[x[1]][x[2]].CommentID # comments[y[1]][y[2]].CommentID
    /\ \A x \in CommentPlaces(comments) :
           comments[x[1]][x[2]].CommentID \in 1..(nextID - 1)

\* C29: comment id uniqueness.  Whatever the interleaving of CreateComment,
\* UpdateComment and DeleteComment requests, no two comments share an id, the
\* n-th comment created gets id n, and an UpdateComment or DeleteComment
\* changes at most one comment.
C29_CommentIdUniqueness ==
    /\ []CommentIdsUnique
    /\ [][/\ (Answers("CreateComment") /\ resp'.status = StatusCreated) =>
               resp'.body.CommentID = Cardinality(CommentPlaces(comments)) + 1
          /\ (Answers("UpdateComment") \/ Answers("DeleteComment")) =>
               /\ DOMAIN comments' = DOMAIN comments
               /\ Cardinality({x \in CommentPlaces(comments) :
                       comments'[x[1]][x[2]] # comments[x[1]][x[2]]}) <= 1
         ]_vars

\* a CreateComment waits for the mutex while another one, which has read
\* nextID and not yet incremented it, holds it
C29_Witness ==
    \E i, j \in DOMAIN inflight :
        /\ At(i, "CreateComment", "lock")
        /\ At(j, "CreateComment", "incr")
        /\ inflight[j].held

(***************************************************************************)
(* Account ids                                                             *)
(***************************************************************************)
\* C30: account id uniqueness.  After any sequence of Register calls, calls
\* that reuse a user name or an e-mail address included, no two stored
\* records with different user names carry the same user id.
C30_AccountIdUniqueness ==
    \A k1, k2 \in DOMAIN AuthUsers :
        AuthUsers[k1].Username # AuthUsers[k2].Username
            => AuthUsers[k1].ID # AuthUsers[k2].ID
====
